---- MODULE Spec2Model ----
(***************************************************************************)
(* Verification model of the two-phase generation pipeline and the         *)
(* deterministic safety validation engine of adv-attack-simulation:        *)
(*   - LLMClient._retry_with_backoff            (src/src/llm/base.py)      *)
(*   - OpenAICompatClient / GeminiClient        (src/src/llm/*.py)         *)
(*   - SafetyValidator                          (src/src/layers/layer6)    *)
(*   - ReasoningEngine.generate_abilities       (src/src/layers/layer3)    *)
(*   - BatchGenerator                           (src/src/services)         *)
(*   - _build_campaign_objects                  (src/src/tools/misp_tools) *)
(* Each component has its own specification (SpecRetry, SpecStructured,    *)
(* SpecToolLoop, SpecValidate, SpecPipeline, SpecToolsSchema, SpecRun,     *)
(* SpecSummary, SpecAudit, SpecCampaigns) over the shared variables.       *)
(***************************************************************************)
EXTENDS Integers, Sequences, FiniteSets, TLC

VARIABLES
    rb,           \* locals of one _retry_with_backoff invocation
    func_log,     \* outcomes func produced so far, in invocation order
    sg,           \* locals of one schema-only generate() invocation
    sg_calls,     \* model calls of that invocation: conversation sent, output
    tl,           \* locals of one _tool_loop invocation
    tl_requested, \* tool calls the model requested so far, in request order
    validator_conn, \* SafetyValidator._conn
    command_blocklist, \* config.COMMAND_BLOCKLIST
    enable_safety_layer, \* Settings.enable_safety_layer
    llm_client,   \* the client create_llm_client built
    sv,           \* the last SafetyValidator.validate call: argument, result
    audit_log,    \* lines of the file at AUDIT_LOG_PATH
    pl,           \* locals of one generate_abilities call or category run
    items,        \* what became of each Phase B item / target processed
    cat_dir,      \* the category's output directory: files, manifest
    run,          \* locals of one BatchGenerator.run call, and its stats;
                  \* in SpecCampaigns those of _build_campaign_objects
    workers,      \* the futures of the category's pool, by target
    out_dir       \* the output directory: files and manifest per category

vars == <<rb, func_log, sg, sg_calls, tl, tl_requested,
          validator_conn, command_blocklist, enable_safety_layer, llm_client,
          sv, audit_log, pl, items, cat_dir, run, workers, out_dir>>

Min(a, b) == IF a < b THEN a ELSE b

(***************************************************************************)
(* Retry / backoff configuration (seconds are whole numbers here: every    *)
(* delay the code can compute from 1.0, x2.0, cap 30.0 is integral).       *)
(***************************************************************************)
LLM_MAX_RETRIES == 3
LLM_BASE_DELAY == 1
LLM_MAX_DELAY == 30
LLM_BACKOFF_FACTOR == 2
MAX_VALIDATION_RETRIES == 3

MAX_RETRIES == LLM_MAX_RETRIES
BASE_DELAY == LLM_BASE_DELAY
MAX_DELAY == LLM_MAX_DELAY
BACKOFF_FACTOR == LLM_BACKOFF_FACTOR

(***************************************************************************)
(* Exceptions are classified by keywords occurring in str(exc).lower().    *)
(* An exception is modelled by the set of those keywords its message       *)
(* contains.                                                               *)
(***************************************************************************)
AuthKeywords == {"401", "403", "unauthorized"}
RetryableKeywords ==
    {"429", "rate", "500", "502", "503", "504", "timeout", "connection"}

\* Messages func may raise: no keyword, one keyword, one of each class.
ErrorMsgs ==
    {{}} \cup {{k} : k \in AuthKeywords \cup RetryableKeywords}
         \cup {{a, r} : a \in AuthKeywords, r \in RetryableKeywords}

NoExc == [kind |-> "none", msg |-> {}, body |-> "none"]
Raise(m) == [kind |-> "err", msg |-> m, body |-> "none"]
Return(b) == [kind |-> "ok", msg |-> {}, body |-> b]

FuncOutcomes == {Return("response")} \cup {Raise(m) : m \in ErrorMsgs}

\* base.py:141  "401" in exc_str or "403" in exc_str or "unauthorized" in exc_str
IsAuthError(exc) == exc.msg \cap AuthKeywords # {}

\* Mutation: every error outside the auth class is taken as retryable.
is_retryable_AnyError(exc) == TRUE

\* base.py:146-149  any(keyword in exc_str for keyword in (...))
is_retryable(exc) == exc.msg \cap RetryableKeywords # {}

RetryStart ==
    [attempt |-> 1, delay |-> BASE_DELAY, last_exc |-> NoExc,
     calls |-> 0, sleeps |-> <<>>, pc |-> "loop", out |-> NoExc]

\* Mutation: the delay is never multiplied.
NextDelay_Constant(delay) == Min(delay, MAX_DELAY)

\* The delay used for the next wait: min(delay * BACKOFF_FACTOR, MAX_DELAY).
NextDelay(delay) == Min(delay * BACKOFF_FACTOR, MAX_DELAY)

\* Mutation: the `attempt < MAX_RETRIES` test is missing, the last attempt
\* sleeps like the others before the error is re-raised.
RetryIter_SleepAfterLast(st, o) ==
    LET called == [st EXCEPT !.calls = @ + 1] IN
    IF o.kind = "ok"
    THEN [called EXCEPT !.pc = "returned", !.out = o]
    ELSE LET caught == [called EXCEPT !.last_exc = o] IN
         IF IsAuthError(o) \/ ~is_retryable(o)
         THEN [caught EXCEPT !.pc = "raised", !.out = o]
         ELSE LET slept == [caught EXCEPT !.sleeps = Append(@, st.delay),
                                          !.delay = NextDelay(st.delay),
                                          !.attempt = @ + 1] IN
              IF st.attempt < MAX_RETRIES
              THEN slept
              ELSE [slept EXCEPT !.pc = "raised", !.out = caught.last_exc]

\* One iteration of `for attempt in range(1, MAX_RETRIES + 1)` given the
\* outcome o of this iteration's func(*args, **kwargs); the last iteration
\* falls out of the loop into `raise last_exc`.
RetryIter(st, o) ==
    LET called == [st EXCEPT !.calls = @ + 1] IN
    IF o.kind = "ok"
    THEN [called EXCEPT !.pc = "returned", !.out = o]
    ELSE LET caught == [called EXCEPT !.last_exc = o] IN
         IF IsAuthError(o)
         THEN [caught EXCEPT !.pc = "raised", !.out = o]
         ELSE IF ~is_retryable(o)
         THEN [caught EXCEPT !.pc = "raised", !.out = o]
         ELSE IF st.attempt < MAX_RETRIES
         THEN [caught EXCEPT !.sleeps = Append(@, st.delay),
                             !.delay = NextDelay(st.delay),
                             !.attempt = @ + 1]
         ELSE [caught EXCEPT !.pc = "raised", !.out = caught.last_exc]

\* The whole of _retry_with_backoff against a func whose k-th invocation
\* produces script[k].
RECURSIVE RetryFold(_, _)
RetryFold(st, script) ==
    IF st.pc # "loop" \/ script = <<>>
    THEN st
    ELSE RetryFold(RetryIter(st, Head(script)), Tail(script))

retry_with_backoff(script) == RetryFold(RetryStart, script)

(***************************************************************************)
(* Ability model (src/src/models/ability.py, src/src/models/enums.py).     *)
(* Text fields are strings of a finite catalogue; what the string library  *)
(* (strip, count, split, re.search, uuid.UUID, datetime.fromisoformat)     *)
(* answers for each catalogue string is tabulated below.                   *)
(***************************************************************************)
\* Optional[...] values: None, or the value present.
None == <<>>
Some(x) == <<x>>

ApprovalStatus == {"PENDING", "APPROVED", "REJECTED", "EXECUTABLE", "BLOCKED"}

ExecutorType ==
    {"powershell", "cmd", "bash", "zsh", "python", "sh",
     "aws_cli", "az_cli", "gcloud_cli", "curl"}

Platform ==
    {"windows", "linux", "macos", "cloud_aws", "cloud_azure", "cloud_gcp"}

SCHEMA_VERSION == "1.0"
AGENT_VERSION == "0.1.0"
BLOCKLIST_VERSION == "1.0.0"
MIN_ABILITY_NAME_LEN == 5
MIN_ABILITY_DESC_LEN == 50

\* Command strings the model may emit.
CmdWhoami == "whoami /all"
CmdPowershell == "Get-Process lsass | Out-File $env:TEMP\\p.txt"
CmdMasscan == "MASSCAN 10.0.0.0/8 -p445"
CmdTrailingPipe == "cat /etc/passwd | grep 'root |"
\* Cleanup strings the model may emit.
CleanupRm == "rm -f /tmp/out.txt"
CleanupEmpty == ""
CleanupSpaces == "   "
CleanupWipe == "rm -rf /"

\* str.strip()
strip(text) == IF text \in {CleanupEmpty, CleanupSpaces} THEN "" ELSE text

\* Regular expressions of the configuration, and re.search(pattern, text,
\* re.IGNORECASE) on the catalogue.
PatRmRf == "rm\\s+-rf\\s+/(?!\\w)"
PatMasscan == "masscan\\s+"
PatEnv == "\\$env:"
PatGetProcess == "Get-Process"
PatWriteHost == "Write-Host"
PatRem == "REM "
PatBinBash == "#!/bin/bash"
PatBinSh == "#!/bin/sh"
PatUsrBinEnv == "#!/usr/bin/env"
PatBin == "#!/bin/"

re_search(pattern, text) ==
    <<pattern, text>> \in
        {<<PatEnv, CmdPowershell>>, <<PatGetProcess, CmdPowershell>>,
         <<PatMasscan, CmdMasscan>>, <<PatRmRf, CleanupWipe>>}

\* cmd.count(ch) for the characters ' " ( )
count(text, ch) == IF text = CmdTrailingPipe /\ ch = "'" THEN 1 ELSE 0

\* cmd.rstrip().endswith("|") or cmd.rstrip().endswith(";")
ends_with_pipe_or_semicolon(text) == text = CmdTrailingPipe

\* First token of the first line that is neither empty nor a comment,
\* stripped of its path prefix and lower-cased; "" when there is no such line.
first_binary_lower(text) ==
    CASE text = CmdWhoami -> "whoami"
      [] text = CmdPowershell -> "get-process"
      [] text = CmdMasscan -> "masscan"
      [] text = CmdTrailingPipe -> "cat"
      [] text \in {CleanupRm, CleanupWipe} -> "rm"
      [] OTHER -> ""

Executor(name, platform, command, cleanup) ==
    [name |-> name, platform |-> platform,
     command |-> command, cleanup_procedure |-> cleanup]

CleanExecutor == Executor("bash", "linux", CmdWhoami, CleanupRm)

\* Executors the model may emit: clean; empty / blank cleanup; blocklisted
\* command / cleanup; blocklisted command and blank cleanup; cross-shell
\* syntax; trailing pipe and unknown binary (soft warnings only).
Executors ==
    {CleanExecutor,
     Executor("bash", "linux", CmdWhoami, CleanupEmpty),
     Executor("bash", "linux", CmdWhoami, CleanupSpaces),
     Executor("bash", "linux", CmdMasscan, CleanupRm),
     Executor("bash", "linux", CmdWhoami, CleanupWipe),
     Executor("bash", "linux", CmdMasscan, CleanupSpaces),
     Executor("bash", "linux", CmdPowershell, CleanupRm),
     Executor("powershell", "windows", CmdTrailingPipe, CleanupRm)}

\* Executor lists: none, one, and a clean executor before or after any other.
ExecutorLists ==
    {<<>>} \cup {<<e>> : e \in Executors}
           \cup {<<CleanExecutor, e>> : e \in Executors}
           \cup {<<e, CleanExecutor>> : e \in Executors}

UuidOk == "a1b2c3d4-e5f6-7890-abcd-ef1234567890"
UuidBad == "not-a-uuid"
\* uuid.UUID(text) succeeds
is_uuid(text) == text = UuidOk

IsoOk == "2026-01-01T00:00:00+00:00"
IsoBad == "yesterday"
\* datetime.now(timezone.utc).isoformat()
utc_now_isoformat == "2026-11-02T21:00:00+00:00"
\* datetime.fromisoformat(text) succeeds
is_isoformat(text) == text \in {IsoOk, utc_now_isoformat}

NameShort == "Dump"
NameOk == "Dumps"
DescShort == "Reads the local account database to list the user"
DescOk == "Reads the local account database to list the users"

TechKnown == "T1003"
TechUnknown == "T9999"

NoTrace ==
    [attached |-> FALSE, model |-> "", tools_called |-> <<>>,
     reasoning_steps |-> 0, total_tokens |-> 0,
     blocklist_version |-> "", validation_warnings |-> <<>>]

\* Every Ability object the validator can be handed.
Abilities ==
    [id : {UuidOk, UuidBad},
     name : {NameShort, NameOk},
     description : {DescShort, DescOk},
     mitre_mapping : [technique : {TechKnown, TechUnknown},
                      sub_technique : {None}],
     executors : ExecutorLists,
     approval_status : ApprovalStatus,
     created_by : {"AI", "human"},
     simulation_only : BOOLEAN,
     schema_version : {SCHEMA_VERSION},
     generated_at : {"", IsoOk, IsoBad},
     agent_version : {AGENT_VERSION},
     generation_trace : {NoTrace}]

(***************************************************************************)
(* Safety configuration (src/src/config.py) and SafetyValidator            *)
(* (src/src/layers/layer6_safety.py).                                      *)
(***************************************************************************)
\* COMMAND_BLOCKLIST as shipped (every pattern is commented out) and with
\* two of its patterns switched on.
COMMAND_BLOCKLIST_SHIPPED == <<>>
COMMAND_BLOCKLIST_ENABLED == <<PatRmRf, PatMasscan>>
BlocklistConfigs == {COMMAND_BLOCKLIST_SHIPPED, COMMAND_BLOCKLIST_ENABLED}

NoCoherenceRules == [defined |-> FALSE, must_not_contain |-> <<>>,
                     platform_must_be |-> <<>>]
CoherenceRules(forbidden, platforms) ==
    [defined |-> TRUE, must_not_contain |-> forbidden,
     platform_must_be |-> platforms]

\* PLATFORM_COHERENCE_RULES.get(executor_name)
PLATFORM_COHERENCE_RULES(executor_name) ==
    CASE executor_name = "powershell" ->
            CoherenceRules(<<PatBinBash, PatBinSh, PatUsrBinEnv>>, <<"windows">>)
      [] executor_name = "cmd" ->
            CoherenceRules(<<PatEnv, PatGetProcess, PatBin>>, <<"windows">>)
      [] executor_name = "bash" ->
            CoherenceRules(<<PatEnv, PatGetProcess, PatWriteHost, PatRem>>,
                           <<"linux", "macos">>)
      [] executor_name = "zsh" ->
            CoherenceRules(<<PatEnv, PatWriteHost, PatRem>>, <<"macos", "linux">>)
      [] executor_name = "aws_cli" ->
            CoherenceRules(<<>>, <<"cloud_aws", "linux", "macos", "windows">>)
      [] executor_name = "az_cli" ->
            CoherenceRules(<<>>, <<"cloud_azure", "linux", "macos", "windows">>)
      [] executor_name = "gcloud_cli" ->
            CoherenceRules(<<>>, <<"cloud_gcp", "linux", "macos", "windows">>)
      [] OTHER -> NoCoherenceRules

\* EXECUTOR_TO_PLATFORM_FAMILY.get(executor_name, "linux")
EXECUTOR_TO_PLATFORM_FAMILY(executor_name) ==
    CASE executor_name \in {"powershell", "cmd"} -> "windows"
      [] executor_name = "zsh" -> "macos"
      [] OTHER -> "linux"

\* KNOWN_BINARIES.get(platform_family, []), lower-cased
KNOWN_BINARIES(platform_family) ==
    CASE platform_family = "windows" ->
            {"rundll32.exe", "reg.exe", "certutil.exe", "whoami.exe", "net.exe",
             "net1.exe", "schtasks.exe", "wmic.exe", "powershell.exe", "cmd.exe",
             "tasklist.exe", "nltest.exe", "dsquery.exe", "setspn.exe",
             "klist.exe", "bitsadmin.exe", "mshta.exe", "cscript.exe",
             "wscript.exe", "msiexec.exe", "regsvr32.exe", "installutil.exe",
             "sc.exe", "netsh.exe", "bcdedit.exe", "vssadmin.exe",
             "esentutl.exe", "ntdsutil.exe", "csvde.exe", "ldifde.exe"}
      [] platform_family = "linux" ->
            {"whoami", "id", "cat", "grep", "awk", "sed", "find", "ls", "ps",
             "curl", "wget", "openssl", "ssh", "scp", "chmod", "chown",
             "crontab", "systemctl", "journalctl", "passwd", "shadow",
             "useradd", "usermod", "iptables", "nmap", "tcpdump", "nc",
             "netcat", "python3", "perl"}
      [] platform_family = "macos" ->
            {"whoami", "id", "cat", "grep", "security", "dscl", "defaults",
             "launchctl", "osascript", "plutil", "profiles", "curl", "openssl"}
      [] OTHER -> {}

\* The graph connection handed to SafetyValidator: none attached, a store
\* that answers, or a store whose query raises.
NoConn == [attached |-> FALSE, up |-> FALSE, techniques |-> {}]
ConnUp == [attached |-> TRUE, up |-> TRUE, techniques |-> {TechKnown}]
ConnDown == [attached |-> TRUE, up |-> FALSE, techniques |-> {}]
Conns == {NoConn, ConnUp, ConnDown}

RuleResult(rule_name, passed, detail) ==
    [rule_name |-> rule_name, passed |-> passed, detail |-> detail]

Range(f) == {f[i] : i \in DOMAIN f}

check_schema(ability) == RuleResult("schema_valid", TRUE, "")

check_status(ability) ==
    LET ok == ability.approval_status = "PENDING" IN
    RuleResult("approval_status", ok, IF ok THEN "" ELSE "Expected PENDING")

check_simulation_flag(ability) ==
    LET ok == ability.simulation_only = TRUE IN
    RuleResult("simulation_flag", ok,
               IF ok THEN "" ELSE "simulation_only is not True")

check_creator(ability) ==
    LET ok == ability.created_by = "AI" IN
    RuleResult("creator_tag", ok, IF ok THEN "" ELSE "Expected 'AI'")

\* Mutation: a lookup that raises fails the rule.
check_mitre_mapping_FailClosed(conn, ability) ==
    IF ~conn.attached
    THEN RuleResult("mitre_mapping", TRUE, "Skipped - no graph connection")
    ELSE IF ~conn.up
    THEN RuleResult("mitre_mapping", FALSE, "Graph lookup error")
    ELSE IF ability.mitre_mapping.technique \notin conn.techniques
    THEN RuleResult("mitre_mapping", FALSE, "Technique not found in graph")
    ELSE RuleResult("mitre_mapping", TRUE, "")

check_mitre_mapping(conn, ability) ==
    IF ~conn.attached
    THEN RuleResult("mitre_mapping", TRUE, "Skipped - no graph connection")
    ELSE IF ~conn.up
    THEN RuleResult("mitre_mapping", TRUE, "Graph lookup error - skipped")
    ELSE IF ability.mitre_mapping.technique \notin conn.techniques
    THEN RuleResult("mitre_mapping", FALSE, "Technique not found in graph")
    ELSE RuleResult("mitre_mapping", TRUE, "")

check_executor_present(ability) ==
    LET ok == Len(ability.executors) >= 1 IN
    RuleResult("executor_present", ok, IF ok THEN "" ELSE "No executors defined")

check_command_blocklist(blocklist, ability) ==
    IF \E i \in DOMAIN ability.executors :
          \E text \in {ability.executors[i].command,
                       ability.executors[i].cleanup_procedure} :
             \E pattern \in Range(blocklist) : re_search(pattern, text)
    THEN RuleResult("command_blocklist", FALSE, "matched blocklist pattern")
    ELSE RuleResult("command_blocklist", TRUE, "")

\* The coherence failure of one executor, "" when it is coherent.
ExecutorIncoherence(executor) ==
    LET rules == PLATFORM_COHERENCE_RULES(executor.name) IN
    IF ~rules.defined THEN ""
    ELSE IF /\ rules.platform_must_be # <<>>
            /\ executor.platform \notin Range(rules.platform_must_be)
    THEN "requires platform"
    ELSE IF \E pattern \in Range(rules.must_not_contain) :
               re_search(pattern, executor.command)
    THEN "command contains cross-platform syntax"
    ELSE ""

check_platform_coherence(ability) ==
    LET bad == {i \in DOMAIN ability.executors :
                   ExecutorIncoherence(ability.executors[i]) # ""} IN
    IF bad = {}
    THEN RuleResult("platform_coherence", TRUE, "")
    ELSE RuleResult("platform_coherence", FALSE,
            ExecutorIncoherence(
                ability.executors[CHOOSE i \in bad : \A j \in bad : i <= j]))

check_executor_name_enum(ability) ==
    IF \E i \in DOMAIN ability.executors :
          ability.executors[i].name \notin ExecutorType
    THEN RuleResult("executor_name_enum", FALSE, "Invalid executor name")
    ELSE RuleResult("executor_name_enum", TRUE, "")

\* Mutation: only the empty string counts as a missing cleanup.
check_cleanup_present_NoStrip(ability) ==
    IF \E i \in DOMAIN ability.executors :
          ability.executors[i].cleanup_procedure = ""
    THEN RuleResult("cleanup_present", FALSE, "empty cleanup_procedure")
    ELSE RuleResult("cleanup_present", TRUE, "")

check_cleanup_present(ability) ==
    IF \E i \in DOMAIN ability.executors :
          \/ ability.executors[i].cleanup_procedure = ""
          \/ strip(ability.executors[i].cleanup_procedure) = ""
    THEN RuleResult("cleanup_present", FALSE, "empty cleanup_procedure")
    ELSE RuleResult("cleanup_present", TRUE, "")

check_content(ability) ==
    IF Len(ability.name) < MIN_ABILITY_NAME_LEN
    THEN RuleResult("content_check", FALSE, "Name too short")
    ELSE IF Len(ability.description) < MIN_ABILITY_DESC_LEN
    THEN RuleResult("content_check", FALSE, "Description too short")
    ELSE RuleResult("content_check", TRUE, "")

check_identity(ability) ==
    IF ~is_uuid(ability.id)
    THEN RuleResult("identity_check", FALSE, "Invalid UUID")
    ELSE IF ability.generated_at # "" /\ ~is_isoformat(ability.generated_at)
    THEN RuleResult("identity_check", FALSE, "Invalid ISO 8601 timestamp")
    ELSE RuleResult("identity_check", TRUE, "")

\* Issues of one command, in the order the rule appends them.
SyntaxIssues(cmd) ==
    (IF count(cmd, "'") % 2 # 0 THEN <<"unmatched single quote">> ELSE <<>>)
    \o (IF count(cmd, "\"") % 2 # 0 THEN <<"unmatched double quote">> ELSE <<>>)
    \o (IF count(cmd, "(") # count(cmd, ")")
        THEN <<"unmatched parentheses">> ELSE <<>>)
    \o (IF ends_with_pipe_or_semicolon(cmd)
        THEN <<"trailing pipe or semicolon">> ELSE <<>>)

check_command_syntax(ability) ==
    IF \E i \in DOMAIN ability.executors :
          SyntaxIssues(ability.executors[i].command) # <<>>
    THEN RuleResult("command_syntax", FALSE, "syntax issues")
    ELSE RuleResult("command_syntax", TRUE, "")

UnknownBinary(executor) ==
    LET allowlist ==
            KNOWN_BINARIES(EXECUTOR_TO_PLATFORM_FAMILY(executor.name))
        binary == first_binary_lower(executor.command)
    IN  allowlist # {} /\ binary # "" /\ binary \notin allowlist

check_known_binaries(ability) ==
    IF \E i \in DOMAIN ability.executors : UnknownBinary(ability.executors[i])
    THEN RuleResult("known_binaries", FALSE, "binary not in allowlist")
    ELSE RuleResult("known_binaries", TRUE, "")

\* self._hard_rules, applied in order
hard_rules(conn, blocklist, ability) ==
    <<check_schema(ability),
      check_status(ability),
      check_simulation_flag(ability),
      check_creator(ability),
      check_mitre_mapping(conn, ability),
      check_executor_present(ability),
      check_command_blocklist(blocklist, ability),
      check_platform_coherence(ability),
      check_executor_name_enum(ability),
      check_cleanup_present(ability),
      check_content(ability),
      check_identity(ability)>>

\* self._soft_rules, applied in order
soft_rules(ability) ==
    <<check_command_syntax(ability), check_known_binaries(ability)>>

Failed(results) == SelectSeq(results, LAMBDA r : ~r.passed)

\* Mutation: a soft warning fails the artifact like a hard failure.
ValidationResult_SoftBlocks(ability_id, hard_failures, warnings) ==
    LET passed == Len(hard_failures) = 0 /\ Len(warnings) = 0 IN
    [passed |-> passed, ability_id |-> ability_id,
     status |-> IF passed THEN "PENDING" ELSE "BLOCKED",
     hard_failures |-> hard_failures, warnings |-> warnings]

\* validate(), lines 157-166: the aggregate outcome
ValidationResult(ability_id, hard_failures, warnings) ==
    LET passed == Len(hard_failures) = 0 IN
    [passed |-> passed, ability_id |-> ability_id,
     status |-> IF passed THEN "PENDING" ELSE "BLOCKED",
     hard_failures |-> hard_failures, warnings |-> warnings]

\* The value validate() returns.
validate(conn, blocklist, ability) ==
    ValidationResult(ability.id,
                     Failed(hard_rules(conn, blocklist, ability)),
                     Failed(soft_rules(ability)))

\* _log_audit_batch: `lines`, one entry per result (the timestamp left out)
audit_entries(ability_id, results) ==
    [k \in DOMAIN results |->
        [ability_id |-> ability_id,
         rule |-> results[k].rule_name,
         result |-> IF results[k].passed THEN "PASS" ELSE "FAIL",
         detail |-> results[k].detail]]

\* The lines _log_audit_batch appends for one validate() call.
audit_lines(conn, blocklist, ability) ==
    audit_entries(ability.id,
                  hard_rules(conn, blocklist, ability) \o soft_rules(ability))

\* _log_audit_batch: a failed write is logged and swallowed.
log_audit_batch(log, lines, io_ok) == IF io_ok THEN log \o lines ELSE log

(***************************************************************************)
(* Structured generation: generate(messages, schema=Ability) of            *)
(* OpenAICompatClient (src/src/llm/openai_compat.py) and GeminiClient      *)
(* (src/src/llm/gemini_client.py).                                         *)
(***************************************************************************)
OPENAI_MAX_VALIDATION_RETRIES == 3
GEMINI_MAX_VALIDATION_RETRIES == 3

\* A clean Ability as the model may emit it.
CleanAbility ==
    [id |-> UuidOk, name |-> NameOk, description |-> DescOk,
     mitre_mapping |-> [technique |-> TechKnown, sub_technique |-> None],
     executors |-> <<CleanExecutor>>,
     approval_status |-> "PENDING", created_by |-> "AI",
     simulation_only |-> TRUE, schema_version |-> SCHEMA_VERSION,
     generated_at |-> IsoOk, agent_version |-> AGENT_VERSION,
     generation_trace |-> NoTrace]

\* A raw model output: text that is JSON (of the object obj) or is not.
Json(obj) == [json_ok |-> TRUE, obj |-> obj]
Malformed == [json_ok |-> FALSE, obj |-> CleanAbility]

\* Mutation: the schema puts no lower bound on the number of executors.
model_validate_json_NoMinLength(raw) ==
    IF ~raw.json_ok THEN {"json_invalid"}
    ELSE (IF raw.obj.approval_status \notin ApprovalStatus
          THEN {"approval_status: enum"} ELSE {})
         \cup (IF \E i \in DOMAIN raw.obj.executors :
                     \/ raw.obj.executors[i].name \notin ExecutorType
                     \/ raw.obj.executors[i].platform \notin Platform
               THEN {"executors: enum"} ELSE {})

\* Ability.model_validate_json(raw_text): the validation errors, {} when the
\* text validates. Only executors (min_length=1) and the enum-typed fields
\* constrain the values modelled here.
model_validate_json(raw) ==
    IF ~raw.json_ok THEN {"json_invalid"}
    ELSE (IF Len(raw.obj.executors) < 1
          THEN {"executors: too_short"} ELSE {})
         \cup (IF raw.obj.approval_status \notin ApprovalStatus
               THEN {"approval_status: enum"} ELSE {})
         \cup (IF \E i \in DOMAIN raw.obj.executors :
                     \/ raw.obj.executors[i].name \notin ExecutorType
                     \/ raw.obj.executors[i].platform \notin Platform
               THEN {"executors: enum"} ELSE {})

\* Raw outputs of the model in the structured-generation specification.
SgRawOutputs ==
    {Json(CleanAbility),
     Json([CleanAbility EXCEPT !.approval_status = "APPROVED",
                               !.created_by = "human",
                               !.simulation_only = FALSE]),
     Json([CleanAbility EXCEPT !.executors = <<>>]),
     Json([CleanAbility EXCEPT !.approval_status = "DONE"]),
     Malformed}

\* Errors the provider raises before a call gets its response.
NetFaults ==
    {<<>>,
     <<Raise({"503"})>>,
     <<Raise({"429"}), Raise({"timeout"}), Raise({"503"})>>,
     <<Raise({"401"})>>}

\* response.usage.total_tokens (0 when the provider reports no usage)
TokenUsages == {0, 7}

\* What one model call is answered with.
ModelReplies ==
    [faults : NetFaults, raw : SgRawOutputs, usage : TokenUsages,
     sdk_parsed : BOOLEAN]

Message(role, kind, raw, errors) ==
    [role |-> role, kind |-> kind, raw |-> raw, errors |-> errors]
SystemMessage == Message("system", "SYSTEM_PROMPT", None, {})
UserMessage == Message("user", "prompt", None, {})
\* the re-prompt that quotes the validation error
FixMessage(errors) == Message("user", "validation errors", None, errors)

InputMessages == {<<SystemMessage, UserMessage>>, <<UserMessage>>}

\* openai_compat._inject_schema_prompt
inject_schema_prompt(messages) ==
    LET working ==
            [k \in DOMAIN messages |->
                IF messages[k].role = "system"
                THEN [messages[k] EXCEPT !.kind = "SYSTEM_PROMPT + schema"]
                ELSE messages[k]]
    IN  IF \E k \in DOMAIN messages : messages[k].role = "system"
        THEN working
        ELSE <<Message("system", "schema", None, {})>> \o working

\* gemini_client._messages_to_contents: the system turn becomes the system
\* instruction, assistant turns get the role "model".
messages_to_contents(messages) ==
    LET kept == SelectSeq(messages, LAMBDA m : m.role # "system") IN
    [k \in DOMAIN kept |->
        IF kept[k].role = "assistant"
        THEN [kept[k] EXCEPT !.role = "model"]
        ELSE kept[k]]

\* What a generate() call ends with: a GenerateResult, or an exception.
NoOut == [kind |-> "none", text |-> None, parsed |-> None,
          tool_calls |-> <<>>, total_tokens |-> 0, errors |-> {},
          exc |-> NoExc]
GenerateResult(text, parsed, total_tokens) ==
    [kind |-> "result", text |-> text, parsed |-> parsed,
     tool_calls |-> <<>>, total_tokens |-> total_tokens, errors |-> {},
     exc |-> NoExc]
ValidationError(errors) == [NoOut EXCEPT !.kind = "ValidationError",
                                         !.errors = errors]
Exception(exc) == [NoOut EXCEPT !.kind = "exception", !.exc = exc]

\* self._retry_with_backoff(_call) for a call answered with reply
NetCall(reply) == retry_with_backoff(reply.faults \o <<Return(reply.raw)>>)

OpenAIStart(messages) ==
    [client |-> "openai", pc |-> "loop", attempt |-> 1,
     working_messages |-> inject_schema_prompt(messages),
     last_error |-> {}, total_tokens |-> 0, validations |-> 0,
     raw_text |-> None, text |-> None, out |-> NoOut]

\* Mutation: the failed output and its errors are not appended.
structured_generate_iter_NoReprompt(st, reply) ==
    LET net == NetCall(reply)
        tokens == st.total_tokens + reply.usage
        errors == model_validate_json(reply.raw)
    IN  IF net.pc = "raised"
        THEN [st EXCEPT !.pc = "raised", !.out = Exception(net.out)]
        ELSE IF errors = {}
        THEN [st EXCEPT !.pc = "returned", !.total_tokens = tokens,
                        !.validations = @ + 1,
                        !.out = GenerateResult(Some(reply.raw),
                                               Some(reply.raw.obj), tokens)]
        ELSE LET failed == [st EXCEPT !.total_tokens = tokens,
                                      !.validations = @ + 1,
                                      !.last_error = errors]
             IN  IF st.attempt < OPENAI_MAX_VALIDATION_RETRIES
                 THEN [failed EXCEPT !.attempt = @ + 1]
                 ELSE [failed EXCEPT !.pc = "raised",
                                     !.out = ValidationError(failed.last_error)]

\* One iteration of the loop of OpenAICompatClient._structured_generate;
\* the last iteration falls out of the loop into `raise last_error`.
structured_generate_iter(st, reply) ==
    LET net == NetCall(reply)
        tokens == st.total_tokens + reply.usage
        errors == model_validate_json(reply.raw)
    IN  IF net.pc = "raised"
        THEN [st EXCEPT !.pc = "raised", !.out = Exception(net.out)]
        ELSE IF errors = {}
        THEN [st EXCEPT !.pc = "returned", !.total_tokens = tokens,
                        !.validations = @ + 1,
                        !.out = GenerateResult(Some(reply.raw),
                                               Some(reply.raw.obj), tokens)]
        ELSE LET failed ==
                    [st EXCEPT !.total_tokens = tokens,
                               !.validations = @ + 1,
                               !.last_error = errors,
                               !.working_messages =
                                   @ \o <<Message("assistant", "output",
                                                  Some(reply.raw), {}),
                                          FixMessage(errors)>>]
             IN  IF st.attempt < OPENAI_MAX_VALIDATION_RETRIES
                 THEN [failed EXCEPT !.attempt = @ + 1]
                 ELSE [failed EXCEPT !.pc = "raised",
                                     !.out = ValidationError(failed.last_error)]

GeminiStart(messages) ==
    [client |-> "gemini", pc |-> "call", attempt |-> 1,
     working_messages |-> messages_to_contents(messages),
     last_error |-> {}, total_tokens |-> 0, validations |-> 0,
     raw_text |-> None, text |-> None, out |-> NoOut]

\* getattr(response, "parsed", None): the SDK offers the parsed object only
\* for a text that validates, and may not offer it at all.
sdk_parsed(reply) ==
    IF reply.sdk_parsed /\ model_validate_json(reply.raw) = {}
    THEN Some(reply.raw.obj) ELSE None

\* GeminiClient.generate with a schema, up to the call of _validate_with_retry.
gemini_generate_call(st, reply) ==
    LET net == NetCall(reply) IN
    IF net.pc = "raised"
    THEN [st EXCEPT !.pc = "raised", !.out = Exception(net.out)]
    ELSE LET got == [st EXCEPT !.text = Some(reply.raw),
                               !.total_tokens = reply.usage]
         IN  IF sdk_parsed(reply) # None
             THEN [got EXCEPT !.pc = "returned",
                              !.out = GenerateResult(got.text,
                                          sdk_parsed(reply), got.total_tokens)]
             ELSE [got EXCEPT !.pc = "validate", !.raw_text = Some(reply.raw)]

\* One iteration of the loop of GeminiClient._validate_with_retry; reply
\* answers the retry call of this iteration, when it makes one.
validate_with_retry_iter(st, reply) ==
    LET raw == st.raw_text[1]
        errors == model_validate_json(raw)
        counted == [st EXCEPT !.validations = @ + 1]
    IN  IF errors = {}
        THEN [counted EXCEPT !.pc = "returned",
                             !.out = GenerateResult(st.text, Some(raw.obj),
                                                    st.total_tokens)]
        ELSE IF st.attempt = GEMINI_MAX_VALIDATION_RETRIES
        THEN [counted EXCEPT !.pc = "raised", !.last_error = errors,
                             !.out = ValidationError(errors)]
        ELSE LET prompted ==
                    [counted EXCEPT !.last_error = errors,
                                    !.working_messages =
                                        @ \o <<Message("model", "output",
                                                       Some(raw), {}),
                                               FixMessage(errors)>>]
                 net == NetCall(reply)
             IN  IF net.pc = "raised"
                 THEN [prompted EXCEPT !.pc = "raised",
                                       !.out = Exception(net.out)]
                 ELSE IF sdk_parsed(reply) # None
                 THEN [prompted EXCEPT !.pc = "returned",
                                       !.raw_text = Some(reply.raw),
                                       !.out = GenerateResult(st.text,
                                                   sdk_parsed(reply),
                                                   st.total_tokens)]
                 ELSE [prompted EXCEPT !.raw_text = Some(reply.raw),
                                       !.attempt = @ + 1]

(***************************************************************************)
(* Tool-calling loop: OpenAICompatClient._tool_loop                        *)
(* (src/src/llm/openai_compat.py).                                         *)
(***************************************************************************)
MaxIterations == 2

\* func.__name__ of the tools bound by create_reasoning_tools
ToolNames ==
    {"get_techniques_by_tactic", "get_techniques_for_platform",
     "get_subtechniques", "get_technique_intel"}

ArgsJson == "{\"technique_id\": \"T1003\"}"
ArgsNotJson == "{technique_id:"

ToolCall(name, arguments, raises) ==
    [name |-> name, arguments |-> arguments, raises |-> raises]

\* Tool calls the model may request: a tool that answers, a tool that raises,
\* arguments that are not JSON, a tool that does not exist.
ToolCalls ==
    {ToolCall("get_technique_intel", ArgsJson, FALSE),
     ToolCall("get_subtechniques", ArgsJson, TRUE),
     ToolCall("get_technique_intel", ArgsNotJson, FALSE),
     ToolCall("drop_database", ArgsJson, FALSE)}

\* json.loads(tool_call.function.arguments), {} on JSONDecodeError
loads_arguments(arguments) == IF arguments = ArgsJson THEN arguments ELSE "{}"

ResultUnknownTool == "{\"error\": \"Unknown tool\"}"
ResultToolError == "{\"error\": \"exception\"}"
ResultIntel == "{\"technique_id\": \"T1003\"}"

\* func(**arguments): without its required argument the tool raises TypeError.
tool_raises(call) == call.raises \/ loads_arguments(call.arguments) = "{}"

\* The result string of one dispatched call.
dispatch(call) ==
    IF call.name \notin ToolNames THEN ResultUnknownTool
    ELSE IF tool_raises(call) THEN ResultToolError
    ELSE ResultIntel

LogEntry(call) ==
    [name |-> call.name, arguments |-> loads_arguments(call.arguments),
     result |-> dispatch(call)]

\* Mutation: a call whose tool is unknown or raised is answered but not logged.
log_calls_SkipErrors(calls) ==
    LET ok == SelectSeq(calls, LAMBDA c : dispatch(c) = ResultIntel) IN
    [k \in DOMAIN ok |-> LogEntry(ok[k])]

\* The entries the inner `for tool_call in message.tool_calls` loop appends.
log_calls(calls) == [k \in DOMAIN calls |-> LogEntry(calls[k])]

ToolMessage(call) == Message("tool", dispatch(call), None, {})

\* message.tool_calls of one assistant message: none, one call, or two.
ToolCallLists ==
    {<<>>} \cup {<<c>> : c \in ToolCalls}
           \cup {<<ToolCall("get_technique_intel", ArgsJson, FALSE),
                    ToolCall("drop_database", ArgsJson, FALSE)>>,
                  <<ToolCall("get_subtechniques", ArgsJson, TRUE),
                    ToolCall("get_technique_intel", ArgsNotJson, FALSE)>>,
                  <<ToolCall("get_technique_intel", ArgsJson, FALSE),
                    ToolCall("get_technique_intel", ArgsJson, FALSE)>>}

\* What one round-trip is answered with: the assistant message.
ToolReplies ==
    [faults : NetFaults, content : {"", "findings"},
     tool_calls : ToolCallLists, usage : TokenUsages]

ToolLoopStart(messages, max_iterations) ==
    [pc |-> "loop", iteration |-> 1, max_iterations |-> max_iterations,
     working_messages |-> messages, tool_call_log |-> <<>>,
     total_tokens |-> 0, round_trips |-> 0, out |-> NoOut]

\* One iteration of `for iteration in range(1, max_iterations + 1)`; the last
\* iteration falls out of the loop into the max-iterations return.
tool_loop_iter(st, reply) ==
    LET net == retry_with_backoff(reply.faults \o <<Return("message")>>)
        sent == [st EXCEPT !.round_trips = @ + 1]
        tokens == st.total_tokens + reply.usage
    IN  IF net.pc = "raised"
        THEN [sent EXCEPT !.pc = "raised", !.out = Exception(net.out)]
        ELSE IF reply.tool_calls = <<>>
        THEN [sent EXCEPT !.pc = "returned", !.total_tokens = tokens,
                          !.out = [GenerateResult(Some(reply.content), None,
                                                  tokens)
                                      EXCEPT !.tool_calls = st.tool_call_log]]
        ELSE LET log == st.tool_call_log \o log_calls(reply.tool_calls)
                 dispatched ==
                    [sent EXCEPT
                        !.total_tokens = tokens,
                        !.tool_call_log = log,
                        !.working_messages =
                            @ \o <<Message("assistant", "tool_calls",
                                           None, {})>>
                              \o [k \in DOMAIN reply.tool_calls |->
                                     ToolMessage(reply.tool_calls[k])]]
             IN  IF st.iteration < st.max_iterations
                 THEN [dispatched EXCEPT !.iteration = @ + 1]
                 ELSE [dispatched EXCEPT
                          !.pc = "returned",
                          !.out = [GenerateResult(Some(""), None, tokens)
                                      EXCEPT !.tool_calls = log]]

(***************************************************************************)
(* The generate() calls of the two pipelines, each as one call:            *)
(* ReasoningEngine (src/src/layers/layer3_reasoning.py) and BatchGenerator *)
(* (src/src/services/batch_generator.py) use whichever client the factory  *)
(* built. A script lists what the model answers to the successive calls of *)
(* one generate(); a model that is asked again after the end of its script *)
(* repeats its last answer.                                                *)
(***************************************************************************)
LlmClients == {"openai", "gemini"}

ReplyAt(script, k) == script[Min(k, Len(script))]

\* OpenAICompatClient._structured_generate: the loop, run to its end
RECURSIVE structured_generate(_, _, _)
structured_generate(st, script, k) ==
    IF st.pc # "loop" THEN st
    ELSE structured_generate(structured_generate_iter(st, ReplyAt(script, k)),
                             script, k + 1)

\* GeminiClient._validate_with_retry: the loop, run to its end
RECURSIVE validate_with_retry(_, _, _)
validate_with_retry(st, script, k) ==
    IF st.pc # "validate" THEN st
    ELSE validate_with_retry(validate_with_retry_iter(st, ReplyAt(script, k)),
                             script, k + 1)

\* OpenAICompatClient._tool_loop: the loop, run to its end
RECURSIVE tool_loop(_, _, _)
tool_loop(st, script, k) ==
    IF st.pc # "loop" THEN st
    ELSE tool_loop(tool_loop_iter(st, ReplyAt(script, k)), script, k + 1)

\* response.automatic_function_calling_history: the SDK records, for each
\* call it made for the model, the function call and then its response.
FunctionCallPart(call) ==
    [kind |-> "function_call", name |-> call.name,
     payload |-> loads_arguments(call.arguments)]
FunctionResponsePart(call) ==
    [kind |-> "function_response", name |-> call.name,
     payload |-> dispatch(call)]
RECURSIVE automatic_function_calling_history(_)
automatic_function_calling_history(calls) ==
    IF calls = <<>> THEN <<>>
    ELSE <<FunctionCallPart(Head(calls)), FunctionResponsePart(Head(calls))>>
         \o automatic_function_calling_history(Tail(calls))

\* gemini_client._extract_tool_calls: a function call opens an entry, a
\* function response fills the latest open entry of the same name.
RECURSIVE extract_tool_calls(_, _)
extract_tool_calls(history, tool_calls) ==
    IF history = <<>> THEN tool_calls
    ELSE LET part == Head(history)
             open == {k \in DOMAIN tool_calls :
                         /\ tool_calls[k].name = part.name
                         /\ tool_calls[k].result = None}
             latest == CHOOSE k \in open : \A j \in open : j <= k
         IN  extract_tool_calls(
                 Tail(history),
                 IF part.kind = "function_call"
                 THEN Append(tool_calls,
                             [name |-> part.name, arguments |-> part.payload,
                              result |-> None])
                 ELSE IF open = {} THEN tool_calls
                 ELSE [tool_calls EXCEPT ![latest].result = Some(part.payload)])

\* GeminiClient.generate(messages, tools=...): one generate_content call in
\* which the SDK makes the tool calls.
gemini_generate_tools(reply) ==
    LET net == retry_with_backoff(reply.faults \o <<Return("response")>>) IN
    IF net.pc = "raised" THEN Exception(net.out)
    ELSE [GenerateResult(Some(reply.content), None, reply.usage)
             EXCEPT !.tool_calls =
                 extract_tool_calls(
                     automatic_function_calling_history(reply.tool_calls),
                     <<>>)]

\* self._llm.generate(messages, tools=self._tools, max_iterations=n)
generate_tools(client, messages, max_iterations, script) ==
    IF client = "openai"
    THEN tool_loop(ToolLoopStart(messages, max_iterations), script, 1).out
    ELSE gemini_generate_tools(ReplyAt(script, 1))

\* self._llm.generate(messages, schema=Ability)
generate_schema(client, messages, script) ==
    IF client = "openai"
    THEN structured_generate(OpenAIStart(messages), script, 1).out
    ELSE validate_with_retry(
             gemini_generate_call(GeminiStart(messages), ReplyAt(script, 1)),
             script, 2).out

(***************************************************************************)
(* ReasoningEngine.generate_abilities and BatchGenerator._compose_ability: *)
(* inputs, and the pieces the two pipelines share.                         *)
(***************************************************************************)
PHASE_A_MAX_ITERATIONS == 10

\* Requested categories: one with a tactic mapping, one without.
Categories == {"credential_access", "ransomware"}

\* CATEGORY_TO_TACTICS.get(cat_value, [])
CATEGORY_TO_TACTICS(category) ==
    CASE category = "credential_access" -> <<"credential-access">>
      [] category = "cloud_iam_abuse" ->
            <<"credential-access", "privilege-escalation">>
      [] category = "active_directory_abuse" ->
            <<"credential-access", "lateral-movement">>
      [] OTHER -> <<>>

\* Abilities as the model may write them, schema-valid, before enforcement.
OutApproved ==
    [CleanAbility EXCEPT !.approval_status = "APPROVED",
                         !.created_by = "human",
                         !.simulation_only = FALSE,
                         !.generated_at = IsoBad]
OutNoCleanup ==
    [CleanAbility EXCEPT
        !.approval_status = "REJECTED",
        !.executors = <<Executor("bash", "linux", CmdWhoami, CleanupEmpty)>>]
OutBlocklisted ==
    [CleanAbility EXCEPT
        !.approval_status = "EXECUTABLE",
        !.executors = <<CleanExecutor,
                        Executor("bash", "linux", CmdMasscan, CleanupRm)>>]
OutWarned ==
    [CleanAbility EXCEPT
        !.approval_status = "BLOCKED",
        !.executors = <<Executor("powershell", "windows", CmdTrailingPipe,
                                 CleanupRm)>>]
OutUnknownTechnique ==
    [CleanAbility EXCEPT !.mitre_mapping.technique = TechUnknown]
OutNoExecutors == [CleanAbility EXCEPT !.executors = <<>>]

Reply(faults, raw, usage, parsed_by_sdk) ==
    [faults |-> faults, raw |-> raw, usage |-> usage,
     sdk_parsed |-> parsed_by_sdk]

\* What the model answers to the calls of one composition: a valid ability
\* at once (five kinds); a provider hiccup and an invalid output, then a
\* valid one; three invalid outputs; an authentication failure.
PhaseBScripts ==
    {<<Reply(<<>>, Json(OutApproved), 7, FALSE)>>,
     <<Reply(<<>>, Json(OutNoCleanup), 7, FALSE)>>,
     <<Reply(<<>>, Json(OutBlocklisted), 7, FALSE)>>,
     <<Reply(<<>>, Json(OutWarned), 0, TRUE)>>,
     <<Reply(<<Raise({"503"})>>, Json(OutNoExecutors), 7, FALSE),
       Reply(<<>>, Json(OutUnknownTechnique), 7, FALSE)>>,
     <<Reply(<<>>, Json(OutNoExecutors), 7, FALSE),
       Reply(<<>>, Malformed, 7, FALSE),
       Reply(<<>>, Json(OutNoExecutors), 0, TRUE)>>,
     <<Reply(<<Raise({"401"})>>, Json(CleanAbility), 7, FALSE)>>}

ToolReply(faults, content, tool_calls, usage) ==
    [faults |-> faults, content |-> content, tool_calls |-> tool_calls,
     usage |-> usage]

\* What the model answers in Phase A: findings at once; two tool calls, then
\* findings; a tool call in every round; an authentication failure; a
\* provider that stays unavailable through every retry.
PhaseAScripts ==
    {<<ToolReply(<<>>, "findings", <<>>, 7)>>,
     <<ToolReply(<<>>, "",
                 <<ToolCall("get_technique_intel", ArgsJson, FALSE),
                   ToolCall("drop_database", ArgsJson, FALSE)>>, 7),
       ToolReply(<<>>, "findings", <<>>, 7)>>,
     <<ToolReply(<<>>, "",
                 <<ToolCall("get_subtechniques", ArgsJson, TRUE)>>, 0)>>,
     <<ToolReply(<<Raise({"401"})>>, "findings", <<>>, 7)>>,
     <<ToolReply(<<Raise({"429"}), Raise({"timeout"}), Raise({"503"})>>,
                 "findings", <<>>, 7)>>}

\* Mutation: the exception of generate() is not caught.
phase_a_reasoning_NoCatch(client, script) ==
    Some(generate_tools(client, <<SystemMessage, UserMessage>>,
                        PHASE_A_MAX_ITERATIONS, script))

\* ReasoningEngine._phase_a_reasoning: the GenerateResult, None on exception
phase_a_reasoning(client, script) ==
    LET result == generate_tools(client, <<SystemMessage, UserMessage>>,
                                 PHASE_A_MAX_ITERATIONS, script)
    IN  IF result.kind = "result" THEN Some(result) ELSE None

\* ReasoningEngine._phase_b_compose: (ability or None, token count)
phase_b_compose(client, script) ==
    LET result == generate_schema(client, <<SystemMessage, UserMessage>>,
                                  script)
    IN  IF result.kind = "result"
        THEN [ability |-> result.parsed, tokens |-> result.total_tokens]
        ELSE [ability |-> None, tokens |-> 0]

\* Mutation: a failed item ends the loop.
next_iteration_AbortOnFailure(st, ability) ==
    [st EXCEPT !.i = @ + 1,
               !.pc = IF st.i = st.count \/ ability = None THEN "returned"
                      ELSE "phase_b"]

\* generate_abilities, `for i in range(1, count + 1)`: on to the next index,
\* or out of the loop to `return abilities`
next_iteration(st, ability) ==
    [st EXCEPT !.i = @ + 1,
               !.pc = IF st.i = st.count THEN "returned" ELSE "phase_b"]

\* Mutation: a blocked ability is left out of the returned list.
append_ability_DropBlocked(abilities, ability) ==
    IF ability.approval_status = "BLOCKED" THEN abilities
    ELSE Append(abilities, ability)

\* generate_abilities, `abilities.append(ability)`
append_ability(abilities, ability) == Append(abilities, ability)

\* ReasoningEngine._enforce_safety_fields, and the same assignments in
\* BatchGenerator._compose_ability
enforce_safety_fields(ability) ==
    [ability EXCEPT !.approval_status = "PENDING",
                    !.created_by = "AI",
                    !.simulation_only = TRUE,
                    !.schema_version = SCHEMA_VERSION,
                    !.generated_at = utc_now_isoformat,
                    !.agent_version = AGENT_VERSION]

\* Mutation: a failed validation leaves the approval_status as it was.
apply_safety_layer_KeepPending(enabled, conn, blocklist, ability) ==
    LET validation == validate(conn, blocklist, ability) IN
    IF enabled
    THEN [validation |-> Some(validation),
          ability |-> ability,
          warning_msgs |-> [k \in DOMAIN validation.warnings |->
                               validation.warnings[k].detail]]
    ELSE [validation |-> None, ability |-> ability, warning_msgs |-> <<>>]

\* `if enable_safety_layer: ... else: ...` of both pipelines: the validation
\* (None when the validator is not invoked), the ability with its final
\* approval_status, and the warnings for the trace.
apply_safety_layer(enabled, conn, blocklist, ability) ==
    LET validation == validate(conn, blocklist, ability) IN
    IF enabled
    THEN [validation |-> Some(validation),
          ability |-> IF ~validation.passed
                      THEN [ability EXCEPT !.approval_status = "BLOCKED"]
                      ELSE ability,
          warning_msgs |-> [k \in DOMAIN validation.warnings |->
                               validation.warnings[k].detail]]
    ELSE [validation |-> None, ability |-> ability, warning_msgs |-> <<>>]

GenerationTrace(model, tools_called, reasoning_steps, total_tokens, warnings) ==
    [attached |-> TRUE, model |-> model, tools_called |-> tools_called,
     reasoning_steps |-> reasoning_steps, total_tokens |-> total_tokens,
     blocklist_version |-> BLOCKLIST_VERSION,
     validation_warnings |-> warnings]

\* What became of one Phase B item or batch target; tokens is what its own
\* composition call returned as token count.
Item(index, parsed, validation, ability, tokens) ==
    [index |-> index, parsed |-> parsed, validation |-> validation,
     ability |-> ability, tokens |-> tokens]

\* BatchStats(): the counters of a run
BatchStats ==
    [total_targets |-> 0, generated |-> 0, failed |-> 0, blocked |-> 0,
     skipped_categories |-> 0, errors |-> <<>>]

PipelineStart ==
    [kind |-> "none", pc |-> "idle", category |-> "", count |-> 0, i |-> 1,
     phase_a |-> NoOut, phase_a_raised |-> FALSE,
     total_phase_b_tokens |-> 0,
     targets |-> <<>>, pending |-> {}, abilities |-> <<>>,
     stats |-> BatchStats]

EmptyDir == [files |-> <<>>, manifest |-> None]

\* TechniqueTarget: the fields the composition and the file name use
TechniqueTarget(technique_id, category, platform) ==
    [technique_id |-> technique_id, category |-> category,
     platform |-> platform]

\* The targets discovery found for the category, in discovery order.
DiscoveredTargets ==
    <<TechniqueTarget(TechKnown, "credential_access", "linux"),
      TechniqueTarget(TechUnknown, "credential_access", "linux"),
      TechniqueTarget(TechKnown, "credential_access", "windows")>>

\* Mutation: a technique the store does not hold raises a lookup error.
enrich_technique_RaiseNotFound(conn, technique_id) ==
    IF ~conn.up \/ technique_id \notin conn.techniques THEN "raised"
    ELSE "intel"

\* BatchGenerator._enrich_technique: the store query raises, or answers with
\* no record ({"error": ...}), or answers with the technique's intel.
enrich_technique(conn, technique_id) ==
    IF ~conn.up THEN "raised"
    ELSE IF technique_id \notin conn.techniques THEN "error"
    ELSE "intel"

\* BatchGenerator._compose_ability(target): raises, returns None, or returns
\* the ability.
compose_ability(client, enabled, conn, blocklist, target, script) ==
    LET intel == enrich_technique(conn, target.technique_id)
        result == generate_schema(client, <<SystemMessage, UserMessage>>,
                                  script)
        enforced == enforce_safety_fields(result.parsed[1])
        safe == apply_safety_layer(enabled, conn, blocklist, enforced)
        traced ==
            [safe.ability EXCEPT
                !.generation_trace =
                    GenerationTrace(client,
                        <<"get_technique_intel", "enrich_technique_context">>,
                        0, result.total_tokens, safe.warning_msgs)]
        nothing == [outcome |-> "none", llm_called |-> FALSE,
                    parsed |-> None, validation |-> None, ability |-> None,
                    tokens |-> 0]
    IN  IF intel = "raised" THEN [nothing EXCEPT !.outcome = "raised"]
        ELSE IF intel = "error" THEN nothing
        ELSE IF result.kind # "result" \/ result.parsed = None
        THEN [nothing EXCEPT !.llm_called = TRUE]
        ELSE [outcome |-> "ability", llm_called |-> TRUE,
              parsed |-> result.parsed, validation |-> safe.validation,
              ability |-> Some(traced), tokens |-> result.total_tokens]

\* f"{target.technique_id}/{target.platform}: {exc}", or the same with
\* "composition returned None"
diagnostic(target, outcome) ==
    target.technique_id \o "/" \o target.platform \o ": " \o outcome

\* Mutation: a worker's exception is logged but not counted.
collect_DropException(abilities, stats, target, composed) ==
    IF composed.outcome = "ability"
    THEN [abilities |-> Append(abilities, composed.ability[1]),
          stats |-> [stats EXCEPT
                        !.generated = @ + 1,
                        !.blocked = IF composed.ability[1].approval_status
                                          = "BLOCKED"
                                    THEN @ + 1 ELSE @]]
    ELSE IF composed.outcome = "raised"
    THEN [abilities |-> abilities, stats |-> stats]
    ELSE [abilities |-> abilities,
          stats |-> [stats EXCEPT
                        !.failed = @ + 1,
                        !.errors = Append(@, diagnostic(target,
                                                        composed.outcome))]]

\* The body of `for future in as_completed(...)` in _generate_category
collect(abilities, stats, target, composed) ==
    IF composed.outcome = "ability"
    THEN [abilities |-> Append(abilities, composed.ability[1]),
          stats |-> [stats EXCEPT
                        !.generated = @ + 1,
                        !.blocked = IF composed.ability[1].approval_status
                                          = "BLOCKED"
                                    THEN @ + 1 ELSE @]]
    ELSE [abilities |-> abilities,
          stats |-> [stats EXCEPT
                        !.failed = @ + 1,
                        !.errors = Append(@, diagnostic(target,
                                                        composed.outcome))]]

\* ability.model_dump(mode="json"), serialised
model_dump_json(ability) == Json(ability)

\* _save_category: `plat`, executors[0].platform.value or "unknown"
primary_platform(ability) ==
    IF Len(ability.executors) > 0 THEN ability.executors[1].platform
    ELSE "unknown"

\* _save_category: `tid`, mitre_mapping.sub_technique or
\* mitre_mapping.technique
artifact_tid(ability) ==
    IF ability.mitre_mapping.sub_technique # None
    THEN ability.mitre_mapping.sub_technique[1]
    ELSE ability.mitre_mapping.technique

\* f"{safe_tid}_{plat}.json"
ability_filename(ability) ==
    artifact_tid(ability) \o "_" \o primary_platform(ability) \o ".json"

\* One pass of the loop of _save_category: filepath.write_text(...) creates
\* the file or replaces the file of that name.
write_file(files, ability) ==
    (ability_filename(ability) :> model_dump_json(ability)) @@ files

\* The loop of _save_category: one file per ability, a later ability with
\* the same file name replacing the earlier file.
RECURSIVE write_files(_, _)
write_files(files, abilities) ==
    IF abilities = <<>> THEN files
    ELSE write_files(write_file(files, Head(abilities)), Tail(abilities))

\* _save_category: techniques_covered
techniques_covered(abilities) ==
    {abilities[k].mitre_mapping.technique : k \in DOMAIN abilities}
        \cup {abilities[k].mitre_mapping.sub_technique[1] :
                 k \in {j \in DOMAIN abilities :
                           abilities[j].mitre_mapping.sub_technique # None}}

\* _save_category: the manifest dictionary
manifest(category, abilities) ==
    [category |-> category,
     generated_at |-> utc_now_isoformat,
     total_abilities |-> Len(abilities),
     techniques_covered |-> techniques_covered(abilities),
     files |-> [k \in DOMAIN abilities |-> ability_filename(abilities[k])]]

\* _save_category: the directory after the files and the manifest are written
save_category(dir, category, abilities) ==
    [files |-> write_files(dir.files, abilities),
     manifest |-> Some(manifest(category, abilities))]
(***************************************************************************)
(* generate(messages, tools=..., schema=Ability): the tool loop, then the  *)
(* validation of the final text (src/src/llm/openai_compat.py 95-103,      *)
(* src/src/llm/gemini_client.py 128-143).                                  *)
(***************************************************************************)
\* What one model call is answered with when tools and a schema are given:
\* a round of tool calls, or a final message whose text (when it has one)
\* is the raw output.
ToolsSchemaReplies ==
    [faults : NetFaults, content : {""}, tool_calls : ToolCallLists \ {<<>>},
     usage : TokenUsages, raw : {Malformed}, sdk_parsed : {FALSE}]
    \cup [faults : NetFaults, content : {"", "output"}, tool_calls : {<<>>},
          usage : TokenUsages, raw : SgRawOutputs, sdk_parsed : BOOLEAN]

\* OpenAICompatClient._validate_structured: the parsed object, None when the
\* text does not validate
validate_structured(raw) ==
    IF model_validate_json(raw) = {} THEN Some(raw.obj) ELSE None

\* OpenAICompatClient.generate, lines 95-103, after _tool_loop returned
\* result: `if schema and result.text: result.parsed = ...; return result`
validate_tool_loop_result(result, raw) ==
    IF result.text # Some("")
    THEN [result EXCEPT !.parsed = validate_structured(raw)]
    ELSE result

OpenAIToolsSchemaStart(messages) ==
    [client |-> "openai", pc |-> "tools", attempt |-> 1,
     working_messages |-> messages,
     last_error |-> {}, total_tokens |-> 0, validations |-> 0,
     raw_text |-> None, text |-> None, out |-> NoOut]

\* OpenAICompatClient.generate with tools and schema, seen after one more
\* round-trip of the tool loop (loop the state of _tool_loop after it).
generate_tools_schema_iter(st, loop, reply) ==
    IF loop.pc = "loop" THEN st
    ELSE IF loop.pc = "raised"
    THEN [st EXCEPT !.pc = "raised", !.out = loop.out]
    ELSE [st EXCEPT !.pc = "returned",
                    !.total_tokens = loop.out.total_tokens,
                    !.text = loop.out.text,
                    !.validations = IF loop.out.text # Some("") THEN 1 ELSE 0,
                    !.out = validate_tool_loop_result(loop.out, reply.raw)]

\* GeminiClient.generate: tool_call_log = _extract_tool_calls(response) is
\* what the returned GenerateResult carries.
with_tool_calls(st, requested) ==
    IF st.pc = "returned"
    THEN [st EXCEPT !.out =
             [@ EXCEPT !.tool_calls =
                 extract_tool_calls(
                     automatic_function_calling_history(requested), <<>>)]]
    ELSE st
(***************************************************************************)
(* BatchGenerator: discovery, and the run over the categories              *)
(* (src/src/services/batch_generator.py).                                  *)
(***************************************************************************)
\* GENERATION_MATRIX, three of its entries in dict order
GENERATION_MATRIX ==
    <<[category |-> "credential_access",
       platforms |-> <<"windows", "linux", "macos">>],
      [category |-> "cloud_iam_abuse",
       platforms |-> <<"cloud_aws", "cloud_azure", "cloud_gcp">>],
      [category |-> "active_directory_abuse",
       platforms |-> <<"windows">>]>>

MatrixCategories ==
    {GENERATION_MATRIX[k].category : k \in DOMAIN GENERATION_MATRIX}

\* The `categories` arguments of a run: none, one category, two.
CategorySelections ==
    {{}, {"active_directory_abuse"},
     {"cloud_iam_abuse", "active_directory_abuse"}}

\* A row of the knowledge store: attack_id and the MITRE platform names
TechniqueRow(attack_id, platforms) ==
    [attack_id |-> attack_id, platforms |-> platforms]

\* The knowledge-store snapshot. T1003.001 is listed under its tactic and
\* as a sub-technique of T1003; T1078 is listed under two tactics; T1003
\* and T1003.001 are reached from two categories.
RowsByTactic(tactic) ==
    CASE tactic = "credential-access" ->
            {TechniqueRow("T1003", <<"Windows">>),
             TechniqueRow("T1003.001", <<"Windows">>),
             TechniqueRow("T1078", <<"Azure AD">>)}
      [] tactic = "privilege-escalation" ->
            {TechniqueRow("T1078", <<"Azure AD">>)}
      [] OTHER -> {}

SubRows(technique_id) ==
    IF technique_id = "T1003"
    THEN {TechniqueRow("T1003.001", <<"Windows">>)}
    ELSE {}

SnapshotTechniques == {"T1003", "T1003.001", "T1078"}

\* The orders in which a query may return the rows of a result set.
Orderings(rows) ==
    {s \in [1..Cardinality(rows) -> rows] :
        \A i, j \in DOMAIN s : i # j => s[i] # s[j]}

SnapshotTactics ==
    {"credential-access", "privilege-escalation", "lateral-movement"}

\* The store answers each query with the rows in some order.
StoreOrders ==
    {o \in [SnapshotTactics ->
               UNION {Orderings(RowsByTactic(t)) : t \in SnapshotTactics}] :
        \A t \in SnapshotTactics : o[t] \in Orderings(RowsByTactic(t))}

\* CTITools.get_techniques_by_tactic / get_subtechniques: the rows, in the
\* order the store returns them this time.
get_techniques_by_tactic(order, tactic) ==
    IF tactic \in SnapshotTactics THEN order[tactic] ELSE <<>>

get_subtechniques(technique_id) ==
    CHOOSE s \in Orderings(SubRows(technique_id)) : TRUE

\* p.lower() on the platform names of the snapshot
lower(p) ==
    CASE p = "Windows" -> "windows"
      [] p = "Linux" -> "linux"
      [] p = "macOS" -> "macos"
      [] p = "Azure AD" -> "azure ad"
      [] p = "IaaS" -> "iaas"
      [] OTHER -> p

\* platform_map.get(target_platform, [target_platform])
platform_map(target_platform) ==
    CASE target_platform = "windows" -> {"windows"}
      [] target_platform = "linux" -> {"linux"}
      [] target_platform = "macos" -> {"macos"}
      [] target_platform = "cloud_aws" -> {"iaas", "saas", "aws"}
      [] target_platform = "cloud_azure" ->
            {"azure ad", "iaas", "saas", "office 365", "azure"}
      [] target_platform = "cloud_gcp" ->
            {"iaas", "saas", "google workspace", "gcp"}
      [] OTHER -> {target_platform}

\* Python's `m in tp` for the matchers and the platform names above
is_substring(m, tp) == m = tp \/ (m = "azure" /\ tp = "azure ad")

\* BatchGenerator._platform_matches
platform_matches(target_platform, technique_platforms) ==
    \E k \in DOMAIN technique_platforms :
        \E m \in platform_map(target_platform) :
            is_substring(m, lower(technique_platforms[k]))

\* discover_targets: `for plat in platforms`, the (technique, platform)
\* pairs the loop visits, in order
visit_platforms(row, category, platforms) ==
    [k \in 1..Len(platforms) |->
        [row |-> row, category |-> category, platform |-> platforms[k]]]

\* discover_targets: `for sub in subs`
RECURSIVE visit_subtechniques(_, _, _, _)
visit_subtechniques(subs, category, platforms, k) ==
    IF k > Len(subs) THEN <<>>
    ELSE visit_platforms(subs[k], category, platforms)
         \o visit_subtechniques(subs, category, platforms, k + 1)

\* discover_targets: `for tech in parent_techniques`, the parent for each
\* platform and then its sub-techniques
RECURSIVE visit_parents(_, _, _, _)
visit_parents(parents, category, platforms, k) ==
    IF k > Len(parents) THEN <<>>
    ELSE visit_platforms(parents[k], category, platforms)
         \o visit_subtechniques(get_subtechniques(parents[k].attack_id),
                                category, platforms, 1)
         \o visit_parents(parents, category, platforms, k + 1)

\* discover_targets: `for tactic in tactics`
RECURSIVE visit_tactics(_, _, _, _)
visit_tactics(order, entry, tactics, k) ==
    IF k > Len(tactics) THEN <<>>
    ELSE visit_parents(get_techniques_by_tactic(order, tactics[k]),
                       entry.category, entry.platforms, 1)
         \o visit_tactics(order, entry, tactics, k + 1)

\* discover_targets: `for category, platforms in matrix.items()`
RECURSIVE visit_categories(_, _, _)
visit_categories(order, matrix, k) ==
    IF k > Len(matrix) THEN <<>>
    ELSE visit_tactics(order, matrix[k],
                       CATEGORY_TO_TACTICS(matrix[k].category), 1)
         \o visit_categories(order, matrix, k + 1)

\* discover_targets: `seen`, when the loops reach their i-th visit: the keys
\* of the earlier visits whose platform matched (each was added to `seen`
\* at its first match)
seen(visits, i) ==
    {<<visits[j].row.attack_id, visits[j].platform>> : j \in {h \in 1..(i - 1) : platform_matches(visits[h].platform, visits[h].row.platforms)}}

\* Mutation: the key is not looked up in `seen`.
add_target_NoSeen(visits, i) ==
    platform_matches(visits[i].platform, visits[i].row.platforms)

\* discover_targets: `if plat_match and key not in seen: seen.add(key);
\* targets.append(TechniqueTarget(...))`: the i-th visit appends a target
add_target(visits, i) ==
    /\ platform_matches(visits[i].platform, visits[i].row.platforms)
    /\ <<visits[i].row.attack_id, visits[i].platform>> \notin seen(visits, i)

\* BatchGenerator.discover_targets(categories); the empty selection, like
\* None, selects the whole matrix
discover_targets(order, categories) ==
    LET selected == IF categories = {} THEN GENERATION_MATRIX
                    ELSE SelectSeq(GENERATION_MATRIX,
                                   LAMBDA e : e.category \in categories)
        visits == visit_categories(order, selected, 1)
        appended == SelectSeq([i \in 1..Len(visits) |-> i],
                              LAMBDA i : add_target(visits, i))
    IN  [n \in 1..Len(appended) |->
            TechniqueTarget(visits[appended[n]].row.attack_id,
                            visits[appended[n]].category,
                            visits[appended[n]].platform)]

\* The store while the workers run: the snapshot, reachable or not.
StoreUp == [ConnUp EXCEPT !.techniques = SnapshotTechniques]
Stores == {StoreUp, ConnDown}

\* run: `by_category.setdefault(t.category, []).append(t)`: the categories
\* in the order of their first target, each with its targets (by index).
by_category(all_targets) ==
    LET firsts == SelectSeq([k \in DOMAIN all_targets |-> k],
                     LAMBDA k : \A j \in 1..(k - 1) :
                         all_targets[j].category # all_targets[k].category)
    IN  [c \in DOMAIN firsts |->
            [category |-> all_targets[firsts[c]].category,
             targets |-> {k \in DOMAIN all_targets :
                            all_targets[k].category
                                = all_targets[firsts[c]].category}]]

\* The locals of run(categories, resume, dry_run) at its first line;
\* out_dir0 keeps the output directory as the run found it, written counts
\* the passes _save_category has made through its loop.
RunStart(categories, resume, dry_run, concurrency, found) ==
    [pc |-> "discover", categories |-> categories, resume |-> resume,
     dry_run |-> dry_run, concurrency |-> concurrency,
     all_targets |-> <<>>, by_category |-> <<>>, cat_idx |-> 1,
     abilities |-> <<>>, stats |-> BatchStats,
     written |-> 0, skipped |-> {}, saved |-> {}, out_dir0 |-> found,
     again |-> FALSE]

\* Mutation: the dry_run flag is not looked at.
after_discovery_IgnoreDryRun(st, all_targets) ==
    [st EXCEPT !.all_targets = all_targets,
               !.stats.total_targets = Len(all_targets),
               !.by_category = by_category(all_targets),
               !.pc = IF all_targets = <<>> THEN "returned" ELSE "category"]

\* run, from the return of discover_targets to the category loop: the dry
\* run prints the manifest and returns
after_discovery(st, all_targets) ==
    IF st.dry_run
    THEN [st EXCEPT !.all_targets = all_targets,
                    !.stats.total_targets = Len(all_targets),
                    !.pc = "returned"]
    ELSE [st EXCEPT !.all_targets = all_targets,
                    !.stats.total_targets = Len(all_targets),
                    !.by_category = by_category(all_targets),
                    !.pc = IF all_targets = <<>> THEN "returned"
                           ELSE "category"]

\* Mutation: an existing manifest skips the category without resume.
skip_category_IgnoreResume(resume, dir) == dir.manifest # None

\* run: `if resume and manifest_path.exists()`
skip_category(resume, dir) == resume /\ dir.manifest # None

\* run: the loop header after category st.cat_idx
next_category(st) ==
    [st EXCEPT !.cat_idx = @ + 1,
               !.abilities = <<>>,
               !.written = 0,
               !.pc = IF st.cat_idx = Len(st.by_category) THEN "returned"
                      ELSE "category"]

\* A future of the pool: not submitted, queued, picked up by a thread, its
\* worker writing the audit block, done, or collected by the main thread.
NoFuture ==
    [pc |-> "none", composed |-> None, block |-> <<>>, raw_writes |-> 0]

\* Mutation: the loop over the futures ends with the first one collected.
pool_drained_FirstCompleted(futures, targets) ==
    \E t \in targets : futures[t].pc = "collected"

\* _generate_category: `for future in as_completed(...)` has run out and
\* the `with ThreadPoolExecutor` block has been left
pool_drained(futures, targets) ==
    \A t \in targets : futures[t].pc = "collected"

\* Mutation: the manifest is written before the artifact files.
manifest_due_BeforeFiles(st) == st.written = 0

\* _save_category: the loop over the abilities has run out, the manifest is
\* written next
manifest_due(st) == st.written = Len(st.abilities)

\* The threads of the pool that are running _compose_ability.
active(futures) ==
    {t \in DOMAIN futures : futures[t].pc \in {"running", "auditing"}}

\* The block _log_audit_batch writes for one validation, line by line,
\* tagged with the worker that writes it.
audit_block(writer, lines) ==
    [k \in DOMAIN lines |->
        [line |-> lines[k], writer |-> writer, part |-> "line"]]

\* `fh.write("\n".join(lines) + "\n")` and the close of the file: the block
\* reaches the file in one raw write, or in two that divide it inside its
\* first line.
RawWrites == {"whole", "partial"}

first_write(block, how) ==
    IF how = "whole" THEN block
    ELSE <<[block[1] EXCEPT !.part = "head"]>>

second_write(block, how) ==
    IF how = "whole" THEN <<>>
    ELSE <<[block[1] EXCEPT !.part = "tail"]>> \o Tail(block)

\* The file after a raw write in append mode: the bytes are added at the
\* end, so the rest of a line that lands right behind its beginning
\* completes that line.
append_raw(log, chunk) ==
    IF /\ log # <<>> /\ chunk # <<>>
       /\ log[Len(log)].part = "head" /\ chunk[1].part = "tail"
       /\ log[Len(log)].writer = chunk[1].writer
    THEN SubSeq(log, 1, Len(log) - 1)
             \o <<[chunk[1] EXCEPT !.part = "line"]>> \o Tail(chunk)
    ELSE log \o chunk

\* The output directory before any run, and as an interrupted run left it:
\* one category complete, one with an artifact file and no manifest.
EmptyOutput == [c \in MatrixCategories |-> EmptyDir]

EarlierManifest(dir) ==
    [dir EXCEPT !.manifest = Some([@[1] EXCEPT !.generated_at = IsoOk])]

InterruptedOutput ==
    [c \in MatrixCategories |->
        CASE c = "credential_access" ->
                EarlierManifest(save_category(EmptyDir, c, <<CleanAbility>>))
          [] c = "cloud_iam_abuse" ->
                [files |-> write_files(<<>>, <<CleanAbility>>),
                 manifest |-> None]
          [] OTHER -> EmptyDir]

\* The ability the composition prompt asks for: the target's technique (a
\* sub-technique under its parent) on the target's platform; its second
\* executor runs a blocklisted command.
OutForTarget(target) ==
    [CleanAbility EXCEPT
        !.approval_status = "EXECUTABLE",
        !.mitre_mapping =
            IF target.technique_id = "T1003.001"
            THEN [technique |-> "T1003", sub_technique |-> Some("T1003.001")]
            ELSE [technique |-> target.technique_id, sub_technique |-> None],
        !.executors =
            <<Executor("bash", target.platform, CmdWhoami, CleanupRm),
              Executor("bash", target.platform, CmdMasscan, CleanupRm)>>]

\* The same ability with the sub-technique left out of its mapping.
OutParentOnly(target) ==
    [OutForTarget(target) EXCEPT !.mitre_mapping.sub_technique = None]

\* What the model answers to a worker's composition call: the ability the
\* prompt asks for, or an authentication failure, or, for a sub-technique,
\* an ability mapped to the parent technique alone.
RunScripts(target) ==
    {<<Reply(<<>>, Json(OutForTarget(target)), 7, FALSE)>>,
     <<Reply(<<Raise({"401"})>>, Json(CleanAbility), 7, FALSE)>>}
    \cup {<<Reply(<<>>, Json(OutParentOnly(target)), 7, FALSE)>> :
             x \in {target.technique_id} \cap {"T1003.001"}}
(***************************************************************************)
(* Variable groups; a specification leaves the other components idle.      *)
(***************************************************************************)
retryVars == <<rb, func_log>>
structVars == <<sg, sg_calls>>
loopVars == <<tl, tl_requested>>
configVars == <<validator_conn, command_blocklist, enable_safety_layer,
                llm_client>>
validateVars == <<sv, audit_log>>
pipelineVars == <<pl, items, cat_dir>>
runVars == <<run, workers, out_dir>>

RetryIdle == rb = RetryStart /\ func_log = <<>>
StructIdle == sg = [pc |-> "idle"] /\ sg_calls = <<>>
LoopIdle == tl = [pc |-> "idle"] /\ tl_requested = <<>>
ConfigIdle ==
    /\ validator_conn = NoConn
    /\ command_blocklist = COMMAND_BLOCKLIST_SHIPPED
    /\ enable_safety_layer = FALSE
    /\ llm_client = "gemini"
ValidateIdle == sv = [pc |-> "idle"] /\ audit_log = <<>>
PipelineIdle == pl = PipelineStart /\ items = <<>> /\ cat_dir = EmptyDir

RunIdle == run = [pc |-> "idle"] /\ workers = <<>> /\ out_dir = <<>>
(***************************************************************************)
(* SpecRetry: one invocation of _retry_with_backoff, one loop iteration    *)
(* per step, against a func that may return or raise anything.             *)
(***************************************************************************)
InitRetry ==
    RunIdle /\ RetryIdle /\ StructIdle /\ LoopIdle /\ ConfigIdle /\ ValidateIdle /\ PipelineIdle

RetryAttempt ==
    /\ UNCHANGED runVars
    /\ rb.pc = "loop"
    /\ \E o \in FuncOutcomes :
          /\ rb' = RetryIter(rb, o)
          /\ func_log' = Append(func_log, o)
    /\ UNCHANGED <<structVars, loopVars, configVars, validateVars,
                   pipelineVars>>

NextRetry == RetryAttempt

SpecRetry == InitRetry /\ [][NextRetry]_vars

\* An error the code retries: not of the auth class, of the retryable class.
Retryable(exc) ==
    /\ exc.kind = "err"
    /\ exc.msg \cap {"401", "403", "unauthorized"} = {}
    /\ exc.msg \cap {"429", "rate", "500", "502", "503", "504",
                     "timeout", "connection"} # {}

\* An error the code must not retry: auth class, or in neither class.
NonRetryable(exc) == exc.kind = "err" /\ ~Retryable(exc)

RECURSIVE Pow2(_)
Pow2(n) == IF n = 0 THEN 1 ELSE 2 * Pow2(n - 1)

\* C6: a call that keeps raising retryable errors is invoked at most 3 times;
\* after the third failure the error of that third attempt is re-raised and
\* there was no wait after the final attempt (only the 2 waits between the
\* 3 attempts).
C6_RetryExhaustion ==
    /\ rb.calls <= 3
    /\ rb.calls = Len(func_log)
    /\ Len(rb.sleeps) < 3
    /\ (/\ Len(func_log) = 3
        /\ \A k \in 1..3 : Retryable(func_log[k]))
       => /\ rb.pc = "raised"
          /\ rb.out = func_log[3]
          /\ Len(rb.sleeps) = 2

C6_Witness ==
    /\ Len(func_log) = 3
    /\ \A k \in 1..3 : Retryable(func_log[k])
    /\ func_log[3] # func_log[2]
    /\ rb.pc = "raised"

\* C7: retryable error twice, then success: the successful result is returned
\* after exactly three invocations, and the wait before attempt k+1 is
\* min(1.0 * 2^(k-1), 30.0), i.e. 1 s then 2 s, strictly increasing.
C7_BackoffThenSuccess ==
    /\ \A k \in 1..Len(rb.sleeps) : rb.sleeps[k] = Min(1 * Pow2(k - 1), 30)
    /\ \A k \in 1..(Len(rb.sleeps) - 1) : rb.sleeps[k] < rb.sleeps[k + 1]
    /\ (/\ Len(func_log) = 3
        /\ Retryable(func_log[1])
        /\ Retryable(func_log[2])
        /\ func_log[3].kind = "ok")
       => /\ rb.pc = "returned"
          /\ rb.out = func_log[3]
          /\ rb.calls = 3
          /\ rb.sleeps = <<1, 2>>

C7_Witness ==
    /\ func_log = <<Raise({"503"}), Raise({"timeout"}), Return("response")>>
    /\ rb.pc = "returned"
    /\ rb.sleeps = <<1, 2>>

\* C8: a non-retryable error (auth class 401/403, or neither auth nor
\* retryable) is propagated by the attempt that raised it: no wait follows it
\* and no further attempt is made; raised by the first attempt, the call was
\* invoked exactly once and never waited.
C8_NonRetryablePropagates ==
    \A k \in 1..Len(func_log) :
        NonRetryable(func_log[k])
        => /\ k = Len(func_log)
           /\ rb.pc = "raised"
           /\ rb.out = func_log[k]
           /\ rb.calls = k
           /\ Len(rb.sleeps) = k - 1

C8_Witness ==
    /\ func_log = <<Raise({"401", "429"})>>
    /\ rb.pc = "raised"
    /\ rb.calls = 1
    /\ rb.sleeps = <<>>

(***************************************************************************)
(* SpecStructured: one schema-only generate() call of either client, one   *)
(* validation attempt per step, against a model that may answer anything.  *)
(***************************************************************************)
InitStructured ==
    /\ RunIdle
    /\ RetryIdle /\ LoopIdle /\ ConfigIdle /\ ValidateIdle /\ PipelineIdle
    /\ \E messages \in InputMessages :
          sg \in {OpenAIStart(messages), GeminiStart(messages)}
    /\ sg_calls = <<>>

ModelCall(sent, reply) ==
    [sent |-> sent, raw |-> reply.raw,
     delivered |-> NetCall(reply).pc = "returned"]

\* OpenAICompatClient._structured_generate, one loop iteration
StructuredAttempt ==
    /\ UNCHANGED runVars
    /\ sg.client = "openai" /\ sg.pc = "loop"
    /\ \E reply \in ModelReplies :
          /\ sg' = structured_generate_iter(sg, reply)
          /\ sg_calls' = Append(sg_calls, ModelCall(sg.working_messages, reply))
    /\ UNCHANGED <<retryVars, loopVars, configVars, validateVars,
                   pipelineVars>>

\* GeminiClient.generate, the first call
GeminiGenerate ==
    /\ UNCHANGED runVars
    /\ sg.client = "gemini" /\ sg.pc = "call"
    /\ \E reply \in ModelReplies :
          /\ sg' = gemini_generate_call(sg, reply)
          /\ sg_calls' = Append(sg_calls, ModelCall(sg.working_messages, reply))
    /\ UNCHANGED <<retryVars, loopVars, configVars, validateVars,
                   pipelineVars>>

\* GeminiClient._validate_with_retry, one loop iteration
GeminiValidateAttempt ==
    /\ UNCHANGED runVars
    /\ sg.client = "gemini" /\ sg.pc = "validate"
    /\ \E reply \in ModelReplies :
          /\ sg' = validate_with_retry_iter(sg, reply)
          /\ sg_calls' =
                IF /\ model_validate_json(sg.raw_text[1]) # {}
                   /\ sg.attempt < GEMINI_MAX_VALIDATION_RETRIES
                THEN Append(sg_calls, ModelCall(sg'.working_messages, reply))
                ELSE sg_calls
    /\ UNCHANGED <<retryVars, loopVars, configVars, validateVars,
                   pipelineVars>>

NextStructured == StructuredAttempt \/ GeminiGenerate \/ GeminiValidateAttempt

SpecStructured == InitStructured /\ [][NextStructured]_vars

Invalid(raw) == model_validate_json(raw) # {}

\* The two turns a failed attempt adds to the conversation.
Reprompt(raw) ==
    <<Message(IF sg.client = "gemini" THEN "model" ELSE "assistant",
              "output", Some(raw), {}),
      FixMessage(model_validate_json(raw))>>

\* C9: schema-only generate() validates at most 3 outputs (and calls the
\* model at most 3 times); it returns the first output that validates; every
\* call after a failed attempt is sent the previous conversation plus the
\* invalid output and its validation error; only after a third failed
\* attempt does it raise the validation error, that of the third output.
C9_ValidationRetries ==
    LET n == Len(sg_calls) IN
    /\ sg.validations <= 3
    /\ n <= 3
    /\ \A k \in 2..n :
          /\ sg_calls[k - 1].delivered
          /\ Invalid(sg_calls[k - 1].raw)
          /\ sg_calls[k].sent =
                sg_calls[k - 1].sent \o Reprompt(sg_calls[k - 1].raw)
    /\ sg.pc = "returned"
       => /\ sg_calls[n].delivered
          /\ ~Invalid(sg_calls[n].raw)
          /\ sg.out.kind = "result"
          /\ sg.out.parsed = Some(sg_calls[n].raw.obj)
    /\ (sg.pc = "raised" /\ sg.out.kind = "ValidationError")
       => /\ n = 3
          /\ sg.validations = 3
          /\ \A k \in 1..3 : sg_calls[k].delivered /\ Invalid(sg_calls[k].raw)
          /\ sg.out.errors = model_validate_json(sg_calls[3].raw)
    /\ (sg.pc = "raised" /\ sg.out.kind = "exception")
       => ~sg_calls[n].delivered

C9_Witness ==
    /\ sg.client = "openai"
    /\ sg.pc = "raised"
    /\ sg.out.kind = "ValidationError"
    /\ Len(sg_calls) = 3
    /\ sg_calls[2].raw # sg_calls[3].raw
    /\ Len(sg_calls[3].sent) = 6

(***************************************************************************)
(* SpecToolLoop: one _tool_loop invocation, one round-trip per step,       *)
(* against a model that may request tool calls in every round.             *)
(***************************************************************************)
InitToolLoop ==
    /\ RunIdle
    /\ RetryIdle /\ StructIdle /\ ConfigIdle /\ ValidateIdle /\ PipelineIdle
    /\ \E max_iterations \in 1..MaxIterations :
          tl = ToolLoopStart(<<SystemMessage, UserMessage>>, max_iterations)
    /\ tl_requested = <<>>

\* OpenAICompatClient._tool_loop, one round-trip with its dispatches
ToolLoopRound ==
    /\ UNCHANGED runVars
    /\ tl.pc = "loop"
    /\ \E reply \in ToolReplies :
          /\ tl' = tool_loop_iter(tl, reply)
          /\ tl_requested' =
                IF tl'.pc = "raised" THEN tl_requested
                ELSE tl_requested \o reply.tool_calls
    /\ UNCHANGED <<retryVars, structVars, configVars, validateVars,
                   pipelineVars>>

NextToolLoop == ToolLoopRound

SpecToolLoop == InitToolLoop /\ [][NextToolLoop]_vars

\* The log entry a requested call must have produced.
ExpectedEntry(call) ==
    [name |-> call.name,
     arguments |-> IF call.arguments = "{\"technique_id\": \"T1003\"}"
                   THEN call.arguments ELSE "{}",
     result |-> IF call.name \notin ToolNames
                THEN "{\"error\": \"Unknown tool\"}"
                ELSE IF call.raises
                        \/ call.arguments # "{\"technique_id\": \"T1003\"}"
                THEN "{\"error\": \"exception\"}"
                ELSE "{\"technique_id\": \"T1003\"}"]

\* C10: the tool loop makes at most max_iterations round-trips and has
\* returned by then even when every round requested tool calls; the log it
\* returns holds every requested call once, in request order, with its name,
\* arguments and result, calls to unknown tools and raising tools included.
C10_ToolLoopBounded ==
    /\ tl.round_trips <= tl.max_iterations
    /\ tl.round_trips = tl.max_iterations => tl.pc # "loop"
    /\ Len(tl.tool_call_log) = Len(tl_requested)
    /\ \A k \in DOMAIN tl_requested :
          tl.tool_call_log[k] = ExpectedEntry(tl_requested[k])
    /\ tl.pc = "returned"
       => /\ tl.out.kind = "result"
          /\ tl.out.tool_calls = tl.tool_call_log

C10_Witness ==
    /\ tl.pc = "returned"
    /\ tl.max_iterations = 2
    /\ tl.round_trips = 2
    /\ tl.out.text = Some("")
    /\ Len(tl.out.tool_calls) = 4
    /\ \E k \in 1..4 : tl_requested[k].name = "drop_database"
    /\ \E k \in 1..4 : tl_requested[k].raises

(***************************************************************************)
(* SpecValidate: SafetyValidator.validate applied to any Ability, with any *)
(* graph connection and either blocklist configuration.                    *)
(***************************************************************************)
InitValidate ==
    /\ RunIdle
    /\ RetryIdle /\ StructIdle /\ LoopIdle /\ ValidateIdle /\ PipelineIdle
    /\ validator_conn \in Conns
    /\ command_blocklist \in BlocklistConfigs
    /\ enable_safety_layer = FALSE
    /\ llm_client = "gemini"

\* SafetyValidator.validate(ability), the audit write included.
Validate ==
    /\ UNCHANGED runVars
    /\ sv.pc = "idle"
    /\ \E ability \in Abilities, io_ok \in BOOLEAN :
          /\ sv' = [pc |-> "done", ability |-> ability,
                    result |-> validate(validator_conn, command_blocklist, ability)]
          /\ audit_log' = log_audit_batch(audit_log,
                              audit_lines(validator_conn, command_blocklist, ability),
                              io_ok)
    /\ UNCHANGED <<retryVars, structVars, loopVars, configVars,
                   pipelineVars>>

NextValidate == Validate

SpecValidate == InitValidate /\ [][NextValidate]_vars

\* The results of the 12 hard rules for the validated ability.
HardOutcomes ==
    LET a == sv.ability IN
    {check_schema(a), check_status(a), check_simulation_flag(a),
     check_creator(a), check_mitre_mapping(validator_conn, a),
     check_executor_present(a),
     check_command_blocklist(command_blocklist, a),
     check_platform_coherence(a), check_executor_name_enum(a),
     check_cleanup_present(a), check_content(a), check_identity(a)}

\* The results of the 2 soft rules for the validated ability.
SoftOutcomes ==
    {check_command_syntax(sv.ability), check_known_binaries(sv.ability)}

\* C2: validate returns passed = true and status PENDING exactly when none of
\* the 12 hard rules failed, passed = false and status BLOCKED exactly when
\* at least one failed; failed soft rules are collected as warnings only.
C2_HardRulesDecide ==
    sv.pc = "done" =>
        LET r == sv.result
            hardFailed == {h \in HardOutcomes : ~h.passed}
            softFailed == {s \in SoftOutcomes : ~s.passed}
        IN  /\ (r.passed /\ r.status = "PENDING") <=> (hardFailed = {})
            /\ (~r.passed /\ r.status = "BLOCKED") <=> (hardFailed # {})
            /\ Range(r.hard_failures) = hardFailed
            /\ Range(r.warnings) = softFailed

C2_Witness ==
    /\ sv.pc = "done"
    /\ sv.result.passed
    /\ sv.result.status = "PENDING"
    /\ Len(sv.result.warnings) = 2

BlankCleanup(e) == e.cleanup_procedure \in {"", "   "}

Blocklisted(e) ==
    \E k \in DOMAIN command_blocklist :
        \/ re_search(command_blocklist[k], e.command)
        \/ re_search(command_blocklist[k], e.cleanup_procedure)

FailedRules(r) == {r.hard_failures[k].rule_name : k \in DOMAIN r.hard_failures}

\* C4: an ability with an executor whose cleanup_procedure is empty or
\* whitespace-only fails cleanup_present and is BLOCKED; an ability with an
\* executor whose command or cleanup matches a pattern of the configured
\* blocklist is BLOCKED; whatever the other fields and rules.
C4_CleanupAndBlocklistBlock ==
    sv.pc = "done" =>
        LET ex == sv.ability.executors IN
        /\ (\E i \in DOMAIN ex : BlankCleanup(ex[i]))
           => /\ sv.result.status = "BLOCKED"
              /\ "cleanup_present" \in FailedRules(sv.result)
        /\ (\E i \in DOMAIN ex : Blocklisted(ex[i]))
           => /\ sv.result.status = "BLOCKED"
              /\ "command_blocklist" \in FailedRules(sv.result)

C4_Witness ==
    /\ sv.pc = "done"
    /\ Len(sv.ability.executors) = 2
    /\ sv.ability.executors[2].command = "MASSCAN 10.0.0.0/8 -p445"
    /\ sv.ability.executors[2].cleanup_procedure = "   "
    /\ FailedRules(sv.result) = {"cleanup_present", "command_blocklist"}
    /\ sv.result.status = "BLOCKED"

(***************************************************************************)
(* SpecPipeline: one ReasoningEngine.generate_abilities call (Phase A,     *)
(* then one Phase B item per step), or one category of a BatchGenerator    *)
(* run (one worker completion per step, then persistence), with the safety *)
(* layer enabled or disabled and a model that may write anything.          *)
(***************************************************************************)
MaxCount == 2
MaxTargets == 2

EngineStart(category, requested) ==
    [PipelineStart EXCEPT !.kind = "engine", !.pc = "phase_a",
                          !.category = category, !.count = requested]

BatchStart(n) ==
    [PipelineStart EXCEPT !.kind = "batch", !.pc = "pool",
                          !.category = "credential_access",
                          !.targets = SubSeq(DiscoveredTargets, 1, n),
                          !.pending = 1..n]

InitPipeline ==
    /\ RunIdle
    /\ RetryIdle /\ StructIdle /\ LoopIdle /\ ValidateIdle
    /\ validator_conn \in {ConnUp, ConnDown}
    /\ command_blocklist \in BlocklistConfigs
    /\ enable_safety_layer \in BOOLEAN
    /\ llm_client \in LlmClients
    /\ pl \in {EngineStart(category, requested) :
                  category \in Categories, requested \in 0..MaxCount}
              \cup {BatchStart(n) : n \in 1..MaxTargets}
    /\ items = <<>>
    /\ cat_dir = EmptyDir

\* The validator's part of a step: validate() ran (result kept, audit lines
\* appended) or was not invoked.
Validated(validation, ability, io_ok) ==
    IF validation # None
    THEN /\ sv' = [pc |-> "done", ability |-> ability,
                   result |-> validation[1]]
         /\ audit_log' =
                log_audit_batch(audit_log,
                    audit_lines(validator_conn, command_blocklist, ability),
                    io_ok)
    ELSE UNCHANGED <<sv, audit_log>>

\* generate_abilities up to the Phase B loop: tactic lookup and Phase A
PhaseA ==
    /\ UNCHANGED runVars
    /\ pl.kind = "engine" /\ pl.pc = "phase_a"
    /\ \E script \in PhaseAScripts :
          LET tactics == CATEGORY_TO_TACTICS(pl.category)
              phase_a_result == phase_a_reasoning(llm_client, script)
              raised == generate_tools(llm_client,
                                       <<SystemMessage, UserMessage>>,
                                       PHASE_A_MAX_ITERATIONS,
                                       script).kind = "exception"
          IN  pl' = IF tactics = <<>>
                    THEN [pl EXCEPT !.pc = "returned"]
                    ELSE IF phase_a_result = None
                    THEN [pl EXCEPT !.pc = "returned",
                                    !.phase_a_raised = raised]
                    ELSE [pl EXCEPT !.phase_a = phase_a_result[1],
                                    !.phase_a_raised = raised,
                                    !.pc = IF pl.count < 1 THEN "returned"
                                           ELSE "phase_b"]
    /\ UNCHANGED <<retryVars, structVars, loopVars, configVars, validateVars,
                   items, cat_dir>>

\* generate_abilities, one iteration of `for i in range(1, count + 1)`; the
\* last iteration falls out of the loop into `return abilities`.
PhaseBItem ==
    /\ UNCHANGED runVars
    /\ pl.kind = "engine" /\ pl.pc = "phase_b"
    /\ \E script \in PhaseBScripts, io_ok \in BOOLEAN :
          LET composed == phase_b_compose(llm_client, script)
              tokens == pl.total_phase_b_tokens + composed.tokens
              moved == next_iteration(
                           [pl EXCEPT !.total_phase_b_tokens = tokens],
                           composed.ability)
              enforced == enforce_safety_fields(composed.ability[1])
              safe == apply_safety_layer(enable_safety_layer, validator_conn,
                                         command_blocklist, enforced)
              tool_call_log == pl.phase_a.tool_calls
              ability ==
                  [safe.ability EXCEPT
                      !.generation_trace =
                          GenerationTrace(llm_client,
                              [k \in DOMAIN tool_call_log |->
                                  tool_call_log[k].name],
                              Len(tool_call_log),
                              pl.phase_a.total_tokens + tokens,
                              safe.warning_msgs)]
          IN  IF composed.ability = None
              THEN /\ pl' = moved
                   /\ items' = Append(items, Item(pl.i, None, None, None,
                                           composed.tokens))
                   /\ UNCHANGED <<sv, audit_log>>
              ELSE /\ pl' = [moved EXCEPT
                               !.abilities = append_ability(@, ability)]
                   /\ items' = Append(items,
                                      Item(pl.i, composed.ability,
                                           safe.validation, Some(ability),
                                           composed.tokens))
                   /\ Validated(safe.validation, enforced, io_ok)
    /\ UNCHANGED <<retryVars, structVars, loopVars, configVars, cat_dir>>

\* One worker of _generate_category: _compose_ability(target) and the
\* collection of its future; the pool is left when no future is pending.
ComposeAbility ==
    /\ UNCHANGED runVars
    /\ pl.kind = "batch" /\ pl.pc = "pool"
    /\ \E t \in pl.pending, script \in PhaseBScripts, io_ok \in BOOLEAN :
          LET composed == compose_ability(llm_client, enable_safety_layer,
                                          validator_conn, command_blocklist,
                                          pl.targets[t], script)
              collected == collect(pl.abilities, pl.stats, pl.targets[t],
                                   composed)
          IN  /\ pl' = [pl EXCEPT !.pending = @ \ {t},
                                  !.abilities = collected.abilities,
                                  !.stats = collected.stats,
                                  !.pc = IF pl.pending = {t} THEN "drained"
                                         ELSE "pool"]
              /\ items' = Append(items,
                                 Item(t, composed.parsed, composed.validation,
                                      composed.ability, composed.tokens))
              /\ IF composed.outcome = "ability"
                 THEN Validated(composed.validation,
                                enforce_safety_fields(composed.parsed[1]),
                                io_ok)
                 ELSE UNCHANGED <<sv, audit_log>>
    /\ UNCHANGED <<retryVars, structVars, loopVars, configVars, cat_dir>>

\* BatchGenerator._save_category for the drained category
SaveCategory ==
    /\ UNCHANGED runVars
    /\ pl.kind = "batch" /\ pl.pc = "drained"
    /\ cat_dir' = save_category(cat_dir, pl.category, pl.abilities)
    /\ pl' = [pl EXCEPT !.pc = "saved"]
    /\ UNCHANGED <<retryVars, structVars, loopVars, configVars, validateVars,
                   items>>

NextPipeline == PhaseA \/ PhaseBItem \/ ComposeAbility \/ SaveCategory

SpecPipeline == InitPipeline /\ [][NextPipeline]_vars

\* The artifacts written to the category directory.
Persisted == {cat_dir.files[f].obj : f \in DOMAIN cat_dir.files}

\* The artifacts that left a pipeline: returned by generate_abilities, or
\* returned by _compose_ability and collected, or persisted.
Emitted ==
    Range(pl.abilities)
    \cup {items[k].ability[1] : k \in {j \in DOMAIN items :
                                          items[j].ability # None}}
    \cup Persisted

SafetyFieldsHold(a) ==
    /\ Len(a.executors) >= 1
    /\ a.simulation_only = TRUE
    /\ a.created_by = "AI"
    /\ a.approval_status \in {"PENDING", "BLOCKED"}

\* C1: every artifact that leaves either pipeline has at least one executor,
\* simulation_only = true, created_by = "AI" and an approval_status of
\* PENDING or BLOCKED, whatever the model wrote in those fields, with the
\* safety layer enabled or disabled.
C1_EmittedSafetyFields ==
    /\ \A a \in Emitted : SafetyFieldsHold(a)
    /\ \A f \in DOMAIN cat_dir.files : cat_dir.files[f].json_ok

C1_Witness ==
    /\ pl.kind = "engine" /\ pl.pc = "returned"
    /\ ~enable_safety_layer
    /\ Len(pl.abilities) = 2
    /\ items[1].parsed[1].approval_status = "APPROVED"
    /\ items[1].parsed[1].created_by = "human"
    /\ items[1].parsed[1].simulation_only = FALSE
    /\ items[2].parsed[1].approval_status = "EXECUTABLE"
    /\ pl.abilities[1].approval_status = "PENDING"

\* The items / targets that produced an artifact, in processing order.
Produced == SelectSeq(items, LAMBDA it : it.ability # None)

\* C3: with the safety layer enabled an artifact is BLOCKED exactly when its
\* validation had a hard failure, and PENDING otherwise; a blocked artifact
\* is returned / collected and written like any other, and the remaining
\* items are still processed; with the safety layer disabled the validator
\* is never invoked and every artifact is PENDING with no validation
\* warnings in its trace.
C3_StatusFromSwitchAndValidation ==
    /\ \A k \in DOMAIN items :
          items[k].ability # None =>
              LET a == items[k].ability[1]
                  v == items[k].validation
              IN  IF enable_safety_layer
                  THEN /\ v # None
                       /\ (a.approval_status = "BLOCKED")
                              <=> (Len(v[1].hard_failures) > 0)
                       /\ (a.approval_status = "PENDING")
                              <=> (Len(v[1].hard_failures) = 0)
                       /\ Len(a.generation_trace.validation_warnings)
                              = Len(v[1].warnings)
                  ELSE /\ v = None
                       /\ a.approval_status = "PENDING"
                       /\ a.generation_trace.validation_warnings = <<>>
    /\ ~enable_safety_layer => (sv.pc = "idle" /\ audit_log = <<>>)
    /\ pl.abilities = [k \in DOMAIN Produced |-> Produced[k].ability[1]]
    /\ (pl.kind = "engine" /\ pl.pc = "returned" /\ items # <<>>)
          => Len(items) = pl.count
    /\ (pl.kind = "batch" /\ pl.pc \in {"drained", "saved"})
          => Len(items) = Len(pl.targets)
    /\ (pl.kind = "batch" /\ pl.pc = "saved")
          => /\ cat_dir.manifest[1].total_abilities = Len(pl.abilities)
             /\ \A k \in DOMAIN pl.abilities :
                   ability_filename(pl.abilities[k]) \in DOMAIN cat_dir.files

C3_Witness ==
    /\ pl.kind = "engine" /\ pl.pc = "returned"
    /\ enable_safety_layer
    /\ pl.count = 2
    /\ Len(pl.abilities) = 2
    /\ pl.abilities[1].approval_status = "BLOCKED"
    /\ pl.abilities[2].approval_status = "PENDING"
    /\ Len(pl.abilities[2].generation_trace.validation_warnings) = 2

\* C5 as the specification states it: every executor of every artifact the
\* pipeline returns or persists has a non-empty cleanup_procedure.
C5_CleanupNonEmpty ==
    \A a \in Emitted :
        \A i \in DOMAIN a.executors : a.executors[i].cleanup_procedure # ""

\* The Phase B calls made so far: one per loop iteration, with its index.
PhaseBCalls == [k \in DOMAIN items |-> items[k].index]

\* C12: when the Phase A generate() call raises, generate_abilities returns
\* the empty list without raising, having made no Phase B call, no
\* validation and no audit-log write.
C12_PhaseAFailureIsFatal ==
    (pl.kind = "engine" /\ pl.phase_a_raised)
        => /\ pl.pc = "returned"
           /\ pl.abilities = <<>>
           /\ PhaseBCalls = <<>>
           /\ sv.pc = "idle"
           /\ audit_log = <<>>

C12_Witness ==
    /\ pl.kind = "engine" /\ pl.phase_a_raised /\ pl.pc = "returned"
    /\ pl.count = 2
    /\ enable_safety_layer

\* C13: when Phase A succeeds the Phase B calls are made one after another
\* with indices 1, 2, ..., and there are exactly count of them when
\* generate_abilities returns, whatever the outcome of earlier items; the
\* returned artifacts are those of the items that succeeded, in index order.
C13_PhaseBItemsIndependent ==
    (pl.kind = "engine" /\ pl.phase_a.kind = "result")
        => /\ PhaseBCalls = [k \in 1..Len(items) |-> k]
           /\ Len(items) <= pl.count
           /\ pl.pc = "returned" => Len(items) = pl.count
           /\ pl.pc = "phase_b" => pl.i = Len(items) + 1
           /\ Len(pl.abilities) = Len(Produced)
           /\ \A k \in DOMAIN Produced :
                 pl.abilities[k] = Produced[k].ability[1]
           /\ \A j, k \in DOMAIN Produced :
                 j < k => Produced[j].index < Produced[k].index

C13_Witness ==
    /\ pl.kind = "engine" /\ pl.pc = "returned"
    /\ pl.count = 2
    /\ Len(items) = 2
    /\ items[1].ability = None
    /\ items[2].ability # None
    /\ Len(pl.abilities) = 1

\* Every Phase B item of the request failed.
AllItemsFailed == \A k \in DOMAIN items : items[k].ability = None

\* C14 as the specification states it: generate_abilities returns an empty
\* result only when Phase A failed as a whole.
C14_EmptyOnlyOnPhaseAFailure ==
    (pl.kind = "engine" /\ pl.pc = "returned" /\ pl.abilities = <<>>)
        => pl.phase_a_raised

\* C14, amended: generate_abilities does not raise and returns between 0
\* and count artifacts, one per Phase B item that succeeded; the result is
\* empty exactly when the category has no tactic mapping, Phase A failed,
\* count is less than 1, or every Phase B item failed.
C14_EmptyExactlyWhenNothingProduced ==
    pl.kind = "engine"
        => /\ pl.pc \in {"phase_a", "phase_b", "returned"}
           /\ Len(pl.abilities) <= pl.count
           /\ Len(pl.abilities) = Len(Produced)
           /\ pl.pc = "returned"
                 => (pl.abilities = <<>>
                        <=> \/ CATEGORY_TO_TACTICS(pl.category) = <<>>
                            \/ pl.phase_a_raised
                            \/ pl.count < 1
                            \/ AllItemsFailed)

C14_Witness ==
    /\ pl.kind = "engine" /\ pl.pc = "returned"
    /\ ~pl.phase_a_raised
    /\ pl.phase_a.kind = "result"
    /\ pl.count = 2
    /\ Len(items) = 2
    /\ AllItemsFailed
    /\ pl.abilities = <<>>

\* The store answers, and holds no record of the target's technique.
NotFound(target) ==
    validator_conn.up /\ target.technique_id \notin validator_conn.techniques

\* C24: for a target whose technique the store does not hold, the
\* enrichment answers with an error result and does not raise, and the
\* worker returns None: no generation call is made for it whatever the
\* model would have answered, nothing is parsed, validated or collected
\* for it, it is counted as failed with the "returned None" diagnostic,
\* and every other target of the category is still processed.
C24_NotFoundIsSkip ==
    pl.kind = "batch"
        => /\ \A k \in DOMAIN items :
                 LET target == pl.targets[items[k].index]
                 IN  NotFound(target)
                        => /\ enrich_technique(validator_conn,
                                               target.technique_id) = "error"
                           /\ \A script \in PhaseBScripts :
                                 LET composed ==
                                        compose_ability(llm_client,
                                            enable_safety_layer,
                                            validator_conn, command_blocklist,
                                            target, script)
                                 IN  /\ composed.outcome = "none"
                                     /\ ~composed.llm_called
                           /\ items[k].parsed = None
                           /\ items[k].validation = None
                           /\ items[k].ability = None
                           /\ diagnostic(target, "none")
                                 \in Range(pl.stats.errors)
                           /\ diagnostic(target, "raised")
                                 \notin Range(pl.stats.errors)
           /\ pl.stats.generated + pl.stats.failed = Len(items)
           /\ pl.stats.generated = Len(pl.abilities)
           /\ pl.pc \in {"drained", "saved"}
                 => {items[k].index : k \in DOMAIN items}
                       = DOMAIN pl.targets

C24_Witness ==
    /\ pl.kind = "batch" /\ pl.pc = "drained"
    /\ Len(items) = 2
    /\ NotFound(pl.targets[items[1].index])
    /\ items[2].ability # None
    /\ pl.stats.generated = 1 /\ pl.stats.failed = 1

\* The trace the claim describes for a Phase B item: the Phase A tool names
\* in call order, their number, and the Phase A token count plus the token
\* count of the item's own composition call.
OwnTrace(item) ==
    [tools_called |-> [k \in DOMAIN pl.phase_a.tool_calls |->
                          pl.phase_a.tool_calls[k].name],
     reasoning_steps |-> Len(pl.phase_a.tool_calls),
     total_tokens |-> pl.phase_a.total_tokens + item.tokens]

\* C27: the GenerationTrace attached to the artifact of Phase B item i lists
\* the Phase A tool names in call order as tools_called, their number as
\* reasoning_steps, and as total_tokens the Phase A token count plus the
\* token count of item i's own composition call, not of other items.
C27_TraceCountsOwnTokens ==
    pl.kind = "engine" =>
        \A k \in DOMAIN items :
            items[k].ability # None =>
                LET trace == items[k].ability[1].generation_trace
                    own == OwnTrace(items[k])
                IN  /\ trace.attached
                    /\ trace.tools_called = own.tools_called
                    /\ trace.reasoning_steps = own.reasoning_steps
                    /\ trace.total_tokens = own.total_tokens
(***************************************************************************)
(* SpecToolsSchema: one generate(messages, tools, schema) call of either   *)
(* client, one model call per step.                                        *)
(***************************************************************************)
InitToolsSchema ==
    /\ RunIdle
    /\ RetryIdle /\ ConfigIdle /\ ValidateIdle /\ PipelineIdle
    /\ \/ /\ \E max_iterations \in 1..MaxIterations :
                tl = ToolLoopStart(<<SystemMessage, UserMessage>>,
                                   max_iterations)
          /\ sg = OpenAIToolsSchemaStart(<<SystemMessage, UserMessage>>)
       \/ /\ tl = [pc |-> "idle"]
          /\ sg = GeminiStart(<<SystemMessage, UserMessage>>)
    /\ tl_requested = <<>>
    /\ sg_calls = <<>>

\* OpenAICompatClient.generate: one round-trip of _tool_loop; the round that
\* ends the loop goes on to _validate_structured and returns.
OpenAIToolsSchemaRound ==
    /\ UNCHANGED runVars
    /\ sg.client = "openai" /\ sg.pc = "tools" /\ tl.pc = "loop"
    /\ \E reply \in ToolsSchemaReplies :
          /\ tl' = tool_loop_iter(tl, reply)
          /\ tl_requested' = IF tl'.pc = "raised" THEN tl_requested
                             ELSE tl_requested \o reply.tool_calls
          /\ sg' = generate_tools_schema_iter(sg, tl', reply)
          /\ sg_calls' = Append(sg_calls, ModelCall(tl.working_messages, reply))
    /\ UNCHANGED <<retryVars, configVars, validateVars, pipelineVars>>

\* GeminiClient.generate with tools and schema: the generate_content call
GeminiToolsSchemaGenerate ==
    /\ UNCHANGED runVars
    /\ sg.client = "gemini" /\ sg.pc = "call" /\ tl.pc = "idle"
    /\ \E reply \in ToolsSchemaReplies :
          /\ sg' = with_tool_calls(gemini_generate_call(sg, reply),
                                   reply.tool_calls)
          /\ tl_requested' = IF NetCall(reply).pc = "raised" THEN tl_requested
                             ELSE reply.tool_calls
          /\ sg_calls' = Append(sg_calls, ModelCall(sg.working_messages, reply))
    /\ UNCHANGED <<tl, retryVars, configVars, validateVars, pipelineVars>>

\* GeminiClient._validate_with_retry under tools and schema, one iteration
GeminiToolsSchemaValidate ==
    /\ UNCHANGED runVars
    /\ sg.client = "gemini" /\ sg.pc = "validate" /\ tl.pc = "idle"
    /\ \E reply \in ToolsSchemaReplies :
          /\ sg' = with_tool_calls(validate_with_retry_iter(sg, reply),
                                   tl_requested)
          /\ sg_calls' =
                IF /\ model_validate_json(sg.raw_text[1]) # {}
                   /\ sg.attempt < GEMINI_MAX_VALIDATION_RETRIES
                THEN Append(sg_calls, ModelCall(sg'.working_messages, reply))
                ELSE sg_calls
    /\ UNCHANGED <<tl, tl_requested, retryVars, configVars, validateVars,
                   pipelineVars>>

NextToolsSchema ==
    OpenAIToolsSchemaRound \/ GeminiToolsSchemaGenerate
        \/ GeminiToolsSchemaValidate

SpecToolsSchema == InitToolsSchema /\ [][NextToolsSchema]_vars

\* generate returned a final text (the OpenAI tool loop returns the empty
\* text when it runs out of iterations).
FinalText ==
    /\ sg.pc = "returned"
    /\ sg.client = "openai" => sg.out.text # Some("")

\* C11: with tools and a schema, the final text is validated under the
\* retry policy of schema-only mode: a final text is returned only with a parsed
\* object that validates, an invalid final text is followed by a re-prompt,
\* at most 3 outputs are validated, and the third failure raises the
\* validation error.
C11_ToolsThenSchemaRetry ==
    /\ sg.validations <= 3
    /\ FinalText
       => /\ sg.out.kind = "result"
          /\ sg.out.parsed # None
          /\ ~Invalid(sg_calls[Len(sg_calls)].raw)
    /\ (sg.pc = "raised" /\ sg.out.kind = "ValidationError")
       => sg.validations = 3
(***************************************************************************)
(* SpecRun: BatchGenerator.run(categories, resume, dry_run), possibly      *)
(* followed by a second run with resume: discovery, then category after    *)
(* category a pool of workers that run concurrently with the main thread's *)
(* collection loop, then persistence.                                      *)
(***************************************************************************)
MaxConcurrency == 2

InitRun ==
    /\ RetryIdle /\ StructIdle /\ LoopIdle /\ PipelineIdle
    /\ validator_conn = StoreUp
    /\ command_blocklist = COMMAND_BLOCKLIST_ENABLED
    /\ enable_safety_layer \in BOOLEAN
    /\ llm_client = "gemini"
    /\ sv = [pc |-> "idle"]
    /\ audit_log = <<>>
    /\ out_dir \in {EmptyOutput, InterruptedOutput}
    /\ run \in {RunStart(categories, resume, dry_run, concurrency, out_dir) :
                   categories \in CategorySelections,
                   resume \in BOOLEAN, dry_run \in BOOLEAN,
                   concurrency \in 1..MaxConcurrency}
    /\ workers = <<>>

\* run, up to the category loop: discover_targets, total_targets, the dry
\* run's return, the grouping by category
Discover ==
    /\ run.pc = "discover"
    /\ \E order \in StoreOrders :
          LET all_targets == discover_targets(order, run.categories)
          IN  /\ run' = after_discovery(run, all_targets)
              /\ workers' = [t \in DOMAIN all_targets |-> NoFuture]
    /\ UNCHANGED <<out_dir, retryVars, structVars, loopVars, configVars,
                   validateVars, pipelineVars>>

\* run, one pass through the head of the category loop: the category is
\* skipped, or its targets are submitted to a new pool
EnterCategory ==
    /\ run.pc = "category"
    /\ LET entry == run.by_category[run.cat_idx]
       IN  IF skip_category(run.resume, out_dir[entry.category])
           THEN /\ run' = [next_category(run) EXCEPT
                              !.stats.skipped_categories = @ + 1,
                              !.skipped = @ \cup {entry.category}]
                /\ UNCHANGED workers
           ELSE /\ run' = [run EXCEPT !.pc = "pool"]
                /\ workers' = [t \in DOMAIN workers |->
                                  IF t \in entry.targets
                                  THEN [NoFuture EXCEPT !.pc = "queued"]
                                  ELSE workers[t]]
    /\ UNCHANGED <<out_dir, retryVars, structVars, loopVars, configVars,
                   validateVars, pipelineVars>>

\* A thread of the pool takes a queued call.
WorkerStart ==
    /\ \E t \in DOMAIN workers :
          /\ workers[t].pc = "queued"
          /\ Cardinality(active(workers)) < run.concurrency
          /\ workers' = [workers EXCEPT ![t].pc = "running"]
    /\ UNCHANGED <<run, out_dir, retryVars, structVars, loopVars, configVars,
                   validateVars, pipelineVars>>

\* _compose_ability(target) in its thread, up to the write of the audit
\* block when the validator ran
WorkerCompose ==
    /\ \E t \in DOMAIN workers, store \in Stores :
        \E script \in RunScripts(run.all_targets[t]) :
          LET composed == compose_ability(llm_client, enable_safety_layer,
                                          store, command_blocklist,
                                          run.all_targets[t], script)
              lines == audit_lines(store, command_blocklist,
                           enforce_safety_fields(composed.parsed[1]))
          IN  /\ workers[t].pc = "running"
              /\ workers' =
                   [workers EXCEPT ![t] =
                       IF composed.validation # None
                       THEN [NoFuture EXCEPT
                                !.pc = "auditing",
                                !.composed = Some(composed),
                                !.block = audit_block(t, lines)]
                       ELSE [NoFuture EXCEPT
                                !.pc = "done",
                                !.composed = Some(composed)]]
    /\ UNCHANGED <<run, out_dir, retryVars, structVars, loopVars, configVars,
                   validateVars, pipelineVars>>

\* _log_audit_batch in the worker's thread: a raw write of the block, or
\* of what is left of it
WorkerAuditWrite ==
    /\ \E t \in DOMAIN workers, how \in RawWrites :
          LET block == workers[t].block
              chunk == IF workers[t].raw_writes = 0
                       THEN first_write(block, how) ELSE block
              rest == IF workers[t].raw_writes = 0
                      THEN second_write(block, how) ELSE <<>>
          IN  /\ workers[t].pc = "auditing"
              /\ workers[t].raw_writes = 1 => how = "whole"
              /\ audit_log' = append_raw(audit_log, chunk)
              /\ workers' =
                   [workers EXCEPT
                       ![t].block = rest,
                       ![t].raw_writes = IF rest = <<>> THEN 0 ELSE 1,
                       ![t].pc = IF rest = <<>> THEN "done" ELSE "auditing"]
    /\ UNCHANGED <<run, out_dir, sv, retryVars, structVars, loopVars,
                   configVars, pipelineVars>>

\* _generate_category, one pass of `for future in as_completed(...)`
CollectFuture ==
    /\ run.pc = "pool"
    /\ \E t \in run.by_category[run.cat_idx].targets :
          LET collected == collect(run.abilities, run.stats,
                                   run.all_targets[t],
                                   workers[t].composed[1])
          IN  /\ workers[t].pc = "done"
              /\ run' = [run EXCEPT !.abilities = collected.abilities,
                                    !.stats = collected.stats]
              /\ workers' = [workers EXCEPT ![t].pc = "collected"]
    /\ UNCHANGED <<out_dir, retryVars, structVars, loopVars, configVars,
                   validateVars, pipelineVars>>

\* _save_category, one pass of `for ability in abilities`, after
\* _generate_category has returned
SaveAbilityFile ==
    /\ run.pc = "pool"
    /\ LET entry == run.by_category[run.cat_idx]
       IN  /\ pool_drained(workers, entry.targets)
           /\ ~manifest_due(run)
           /\ out_dir' = [out_dir EXCEPT
                             ![entry.category].files =
                                 write_file(@, run.abilities[run.written + 1])]
           /\ run' = [run EXCEPT !.written = @ + 1]
    /\ UNCHANGED <<workers, retryVars, structVars, loopVars, configVars,
                   validateVars, pipelineVars>>

\* _save_category, the write of _manifest.json, and run up to the next
\* category or the return of the stats
PersistCategory ==
    /\ run.pc = "pool"
    /\ LET entry == run.by_category[run.cat_idx]
       IN  /\ pool_drained(workers, entry.targets)
           /\ manifest_due(run)
           /\ out_dir' = [out_dir EXCEPT
                             ![entry.category].manifest =
                                 Some(manifest(entry.category,
                                               run.abilities))]
           /\ run' = [next_category(run) EXCEPT
                         !.saved = @ \cup {entry.category}]
    /\ UNCHANGED <<workers, retryVars, structVars, loopVars, configVars,
                   validateVars, pipelineVars>>

\* KeyboardInterrupt in the main thread while run is in its category loop:
\* nothing in run catches it; it leaves run once the `with` block of the
\* pool has waited for its workers, and main logs and exits.
Interrupt ==
    /\ run.pc \in {"category", "pool"}
    /\ \A t \in DOMAIN workers :
          workers[t].pc \notin {"queued", "running", "auditing"}
    /\ run' = [run EXCEPT !.pc = "interrupted"]
    /\ UNCHANGED <<workers, out_dir, retryVars, structVars, loopVars,
                   configVars, validateVars, pipelineVars>>

\* The same run(categories, resume=True) once more, on what the first run
\* left in the output directory.
RunAgain ==
    /\ run.pc = "returned" /\ ~run.dry_run /\ ~run.again
    /\ run' = [RunStart(run.categories, TRUE, FALSE, run.concurrency,
                        out_dir) EXCEPT !.again = TRUE]
    /\ workers' = <<>>
    /\ UNCHANGED <<out_dir, retryVars, structVars, loopVars, configVars,
                   validateVars, pipelineVars>>

NextRun ==
    Discover \/ EnterCategory \/ WorkerStart \/ WorkerCompose
        \/ WorkerAuditWrite \/ CollectFuture \/ SaveAbilityFile
        \/ PersistCategory \/ Interrupt \/ RunAgain

SpecRun == InitRun /\ [][NextRun]_vars

\* The (technique_id, platform) pairs of a list of targets.
Pairs(targets) ==
    {<<targets[k].technique_id, targets[k].platform>> : k \in DOMAIN targets}

\* The rows the snapshot holds for a tactic: its techniques and their
\* sub-techniques.
TacticRows(tactic) ==
    RowsByTactic(tactic)
        \cup UNION {SubRows(r.attack_id) : r \in RowsByTactic(tactic)}

\* The pairs of the snapshot that a matrix entry matches.
EntryPairs(e) ==
    {pr \in {<<r.attack_id, e.platforms[p]>> :
                r \in UNION {TacticRows(tactic) :
                                tactic \in Range(CATEGORY_TO_TACTICS(
                                                     e.category))},
                p \in DOMAIN e.platforms} :
        \E r \in UNION {TacticRows(tactic) :
                           tactic \in Range(CATEGORY_TO_TACTICS(e.category))} :
            r.attack_id = pr[1] /\ platform_matches(pr[2], r.platforms)}

\* The distinct pairs the snapshot matches for a category selection.
MatchedPairs(categories) ==
    UNION {EntryPairs(GENERATION_MATRIX[k]) :
              k \in {j \in DOMAIN GENERATION_MATRIX :
                        categories = {}
                            \/ GENERATION_MATRIX[j].category \in categories}}

\* C15: for the fixed snapshot and a fixed category selection,
\* discover_targets returns the same set of (technique_id, platform) pairs
\* whatever the order in which the store returns its rows, and no pair
\* appears twice in the result.
C15_DiscoveryDeterministicDeduplicated ==
    run.pc \notin {"idle", "discover"}
        => /\ Pairs(run.all_targets) = MatchedPairs(run.categories)
           /\ \A i, j \in DOMAIN run.all_targets :
                 i # j => <<run.all_targets[i].technique_id,
                            run.all_targets[i].platform>>
                          # <<run.all_targets[j].technique_id,
                              run.all_targets[j].platform>>

C15_Witness ==
    /\ run.pc = "returned" /\ run.categories = {}
    /\ Len(run.all_targets) = 3
    /\ run.all_targets[1].technique_id = "T1003.001"
    /\ run.all_targets[2].technique_id = "T1003"
    /\ run.all_targets[3].technique_id = "T1078"

\* C16: a dry run does discovery only: no target is composed (no
\* generation, enrichment or validation call), no file is written, and the
\* returned stats carry the number of distinct matched pairs as
\* total_targets and 0 in every other counter.
C16_DryRunDiscoversOnly ==
    (run.pc # "idle" /\ run.dry_run)
        => /\ run.pc \in {"discover", "returned"}
           /\ \A t \in DOMAIN workers : workers[t] = NoFuture
           /\ out_dir = run.out_dir0
           /\ audit_log = <<>>
           /\ run.pc = "returned"
                 => run.stats =
                       [BatchStats EXCEPT
                           !.total_targets =
                               Cardinality(MatchedPairs(run.categories))]

C16_Witness ==
    /\ run.pc = "returned" /\ run.dry_run
    /\ run.stats.total_targets = 3
    /\ out_dir = InterruptedOutput

\* The position of a target's category in the category loop.
CategoryIndex(t) ==
    CHOOSE k \in DOMAIN run.by_category : t \in run.by_category[k].targets

\* C17: the categories are processed one after another with a barrier:
\* every worker that is queued, running or not yet collected belongs to
\* the category the main thread is in, and when a worker of a category
\* exists every earlier category was skipped or has all its workers
\* collected and its files and manifest written.
C17_CategoriesSequential ==
    (run.pc \notin {"idle", "discover"} /\ ~run.dry_run)
        => \A t \in DOMAIN workers :
              /\ workers[t].pc \in {"queued", "running", "auditing", "done"}
                    => /\ run.pc \in {"pool", "interrupted"}
                       /\ CategoryIndex(t) = run.cat_idx
              /\ workers[t].pc # "none"
                    => \A k \in 1..(CategoryIndex(t) - 1) :
                          LET e == run.by_category[k]
                          IN  \/ e.category \in run.skipped
                              \/ /\ e.category \in run.saved
                                 /\ out_dir[e.category].manifest # None
                                 /\ \A u \in e.targets :
                                       workers[u].pc = "collected"

C17_Witness ==
    /\ run.pc = "pool" /\ run.cat_idx = 2 /\ run.concurrency = 2
    /\ run.by_category[1].category \in run.saved
    /\ Cardinality(run.by_category[1].targets) = 2
    /\ \E t \in run.by_category[2].targets : workers[t].pc = "running"

\* The targets whose future the main thread has collected.
Counted == {t \in DOMAIN workers : workers[t].pc = "collected"}

Outcome(t) == workers[t].composed[1].outcome

\* C18: a failed target never keeps a sibling from being composed and
\* collected, in whatever order the workers complete: every collected
\* target is counted once, as generated or as failed, every failed target
\* has exactly one diagnostic string, and when the run returns every
\* target of every category that was not skipped has been collected.
C18_SiblingsUnaffected ==
    (run.pc \notin {"idle", "discover"} /\ ~run.dry_run)
        => /\ run.stats.generated + run.stats.failed = Cardinality(Counted)
           /\ Len(run.stats.errors) = run.stats.failed
           /\ \A t \in Counted :
                 LET own == {k \in DOMAIN run.stats.errors :
                               \E o \in {"raised", "none"} :
                                   run.stats.errors[k]
                                       = diagnostic(run.all_targets[t], o)}
                 IN  IF Outcome(t) = "ability" THEN own = {}
                     ELSE /\ Cardinality(own) = 1
                          /\ \A k \in own :
                                run.stats.errors[k]
                                    = diagnostic(run.all_targets[t],
                                                 Outcome(t))
           /\ run.pc = "returned"
                 => Counted = {t \in DOMAIN workers :
                                 run.all_targets[t].category
                                     \notin run.skipped}

C18_Witness ==
    /\ run.pc = "returned" /\ ~run.dry_run /\ run.concurrency = 2
    /\ run.stats.generated = 1 /\ run.stats.failed = 2
    /\ \E t, u \in run.by_category[1].targets :
          /\ Outcome(t) = "raised" /\ Outcome(u) = "ability"
          /\ run.stats.errors[1] = diagnostic(run.all_targets[t], "raised")

\* C19: with resume a category is skipped exactly when its _manifest.json
\* exists; a skipped category is counted, none of its targets is composed
\* and its directory is left as it was; every other category with targets
\* is generated and saved; a second run with resume leaves every file of
\* the first run unchanged.
C19_ResumeSkipsOnManifest ==
    (run.pc = "returned" /\ ~run.dry_run)
        => /\ \A k \in DOMAIN run.by_category :
                 LET e == run.by_category[k]
                 IN  /\ e.category \in run.skipped
                           <=> (run.resume
                                  /\ run.out_dir0[e.category].manifest # None)
                     /\ e.category \in run.skipped
                           => /\ out_dir[e.category]
                                    = run.out_dir0[e.category]
                              /\ \A t \in e.targets : workers[t] = NoFuture
                     /\ e.category \notin run.skipped
                           => e.category \in run.saved
           /\ run.stats.skipped_categories = Cardinality(run.skipped)
           /\ \A c \in MatrixCategories :
                 c \notin run.saved => out_dir[c] = run.out_dir0[c]
           /\ run.again => (out_dir = run.out_dir0 /\ run.saved = {})

C19_Witness ==
    /\ run.pc = "returned" /\ run.again
    /\ run.stats.skipped_categories = 2
    /\ run.stats.generated = 0
    /\ out_dir["cloud_iam_abuse"].manifest # None
    /\ out_dir["credential_access"].manifest[1].generated_at = IsoOk

\* C20 as the specification states it: the writers of the audit log are
\* serialized: the lines of one validation are never separated or divided
\* by lines of another validation, and every line of the file is one
\* complete JSON object (the last one may still be under way).
C20_AuditWritersSerialized ==
    /\ \A i \in DOMAIN audit_log :
          /\ audit_log[i].part # "tail"
          /\ audit_log[i].part = "head" => i = Len(audit_log)
    /\ \A i, j, k \in DOMAIN audit_log :
          (i < j /\ j < k /\ audit_log[i].writer = audit_log[k].writer)
              => audit_log[j].writer = audit_log[i].writer

\* The artifact files a manifest lists are all in its directory.
ManifestFilesPresent(dir) ==
    dir.manifest # None
        => \A k \in DOMAIN dir.manifest[1].files :
              dir.manifest[1].files[k] \in DOMAIN dir.files

\* The abilities the main thread collected from the pool of an entry of
\* by_category.
CollectedAbilities(e) ==
    {t \in e.targets : workers[t].pc = "collected"
                          /\ Outcome(t) = "ability"}

\* C21: a category's directory is written only after every future of its
\* pool has been collected, and the manifest is written after the artifact
\* files: in every state, the run interrupted or not, a directory with a
\* manifest holds every file the manifest lists; a category the run has
\* persisted has its manifest, counting every collected ability, a later
\* run with resume skips it, and no later step of the run changes its
\* directory.
C21_PersistAfterDrainManifestLast ==
    /\ [](run.pc \notin {"idle", "discover"}
            => /\ \A c \in MatrixCategories :
                     /\ ManifestFilesPresent(out_dir[c])
                     /\ out_dir[c] # run.out_dir0[c]
                           => \E k \in 1..Min(run.cat_idx,
                                              Len(run.by_category)) :
                                 /\ run.by_category[k].category = c
                                 /\ pool_drained(workers,
                                        run.by_category[k].targets)
               /\ \A k \in DOMAIN run.by_category :
                     LET e == run.by_category[k]
                     IN  e.category \in run.saved
                            => /\ skip_category(TRUE, out_dir[e.category])
                               /\ out_dir[e.category].manifest[1]
                                     .total_abilities
                                     = Cardinality(CollectedAbilities(e)))
    /\ [][\A c \in MatrixCategories :
             (run.pc # "idle" /\ c \in run.saved)
                 => out_dir'[c] = out_dir[c]]_vars

C21_Witness ==
    /\ run.pc = "interrupted" /\ run.cat_idx = 2 /\ run.written = 1
    /\ "credential_access" \in run.saved
    /\ out_dir["credential_access"].manifest[1].total_abilities = 2
    /\ out_dir["cloud_iam_abuse"].manifest = None
    /\ DOMAIN out_dir["cloud_iam_abuse"].files # {}

\* C22 as the specification states it: every successful artifact of a
\* category is persisted in its own file: once _save_category has run on a
\* directory the run found empty, the directory holds as many artifact
\* files as the manifest's total_abilities and as its files list has
\* entries, and every collected artifact is in the file of its name, none
\* replaced by another artifact of the run.
C22_OneFilePerArtifact ==
    run.pc \notin {"idle", "discover"}
        => \A k \in DOMAIN run.by_category :
              LET e == run.by_category[k]
                  dir == out_dir[e.category]
              IN  (e.category \in run.saved
                     /\ run.out_dir0[e.category] = EmptyDir)
                     => /\ Cardinality(DOMAIN dir.files)
                              = dir.manifest[1].total_abilities
                        /\ Len(dir.manifest[1].files)
                              = dir.manifest[1].total_abilities
                        /\ \A t \in CollectedAbilities(e) :
                              LET a == workers[t].composed[1].ability[1]
                              IN  /\ ability_filename(a) \in DOMAIN dir.files
                                  /\ dir.files[ability_filename(a)]
                                        = model_dump_json(a)

\* The categories a call of discover_targets covers.
Requested(categories) ==
    IF categories = {} THEN MatrixCategories ELSE categories

\* The (technique_id, platform) pairs of the targets tagged with category c.
TaggedPairs(targets, c) ==
    {<<targets[k].technique_id, targets[k].platform>> :
        k \in {j \in DOMAIN targets : targets[j].category = c}}

C30_ManifestOnlyWithArtifact ==
    \A c \in MatrixCategories :
        /\ (run.pc # "idle" /\ c \in run.saved)
              => out_dir[c].manifest[1].total_abilities > 0
        /\ (run.pc # "idle" /\ c \in run.skipped)
              => run.out_dir0[c].manifest[1].total_abilities > 0

(***************************************************************************)
(* SpecSummary: the collection loop of _generate_category over a category  *)
(* with many targets, and _log_summary on the stats run returns.           *)
(***************************************************************************)
\* `for err in stats.errors[:20]`
ERRORS_LOGGED == 20

\* The discovery category of the matrix, a technique on each of its six
\* platforms: four techniques, one of them no longer in the store.
ManyTargets ==
    LET techniques == <<"T1003", "T1003.001", "T1078", TechUnknown>>
        platforms == <<"windows", "linux", "macos",
                       "cloud_aws", "cloud_azure", "cloud_gcp">>
    IN  [k \in 1..(Len(techniques) * Len(platforms)) |->
            TechniqueTarget(techniques[((k - 1) \div Len(platforms)) + 1],
                            "discovery",
                            platforms[((k - 1) % Len(platforms)) + 1])]

\* _log_summary: the diagnostic strings it logs
log_summary(stats) ==
    SubSeq(stats.errors, 1, Min(ERRORS_LOGGED, Len(stats.errors)))

\* What the model answers during one run: the ability asked for, always or
\* never.
SummaryScripts(target) ==
    {<<Reply(<<>>, Json(OutForTarget(target)), 7, FALSE)>>,
     <<Reply(<<Raise({"401"})>>, Json(CleanAbility), 7, FALSE)>>}

InitSummary ==
    /\ RetryIdle /\ StructIdle /\ LoopIdle /\ PipelineIdle /\ ValidateIdle
    /\ validator_conn \in Stores
    /\ command_blocklist = COMMAND_BLOCKLIST_ENABLED
    /\ enable_safety_layer \in BOOLEAN
    /\ llm_client \in LlmClients
    /\ workers = <<>> /\ out_dir = <<>>
    /\ run \in [pc : {"collecting"}, answers : BOOLEAN, collected : {0},
                abilities : {<<>>}, stats : {BatchStats}, logged : {<<>>}]

\* _generate_category, one pass of `for future in as_completed(...)` with
\* the _compose_ability call whose future it collects
CollectNext ==
    /\ run.pc = "collecting"
    /\ run.collected < Len(ManyTargets)
    /\ LET target == ManyTargets[run.collected + 1]
           script == CHOOSE s \in SummaryScripts(target) :
                        (s[1].faults = <<>>) = run.answers
           composed == compose_ability(llm_client, enable_safety_layer,
                                       validator_conn, command_blocklist,
                                       target, script)
           collected == collect(run.abilities, run.stats, target, composed)
       IN  run' = [run EXCEPT !.collected = @ + 1,
                              !.abilities = collected.abilities,
                              !.stats = collected.stats]
    /\ UNCHANGED <<workers, out_dir, retryVars, structVars, loopVars,
                   configVars, validateVars, pipelineVars>>

\* run, after the category loop: _log_summary(stats) and the return
LogSummary ==
    /\ run.pc = "collecting"
    /\ run.collected = Len(ManyTargets)
    /\ run' = [run EXCEPT !.pc = "returned",
                          !.logged = log_summary(run.stats)]
    /\ UNCHANGED <<workers, out_dir, retryVars, structVars, loopVars,
                   configVars, validateVars, pipelineVars>>

NextSummary == CollectNext \/ LogSummary

SpecSummary == InitSummary /\ [][NextSummary]_vars

\* C23 as the specification states it: the list of diagnostic strings in
\* the stats that run returns is bounded: however many targets fail, it
\* never holds more strings than the cap _log_summary applies.
C23_ErrorsBounded == Len(run.stats.errors) <= ERRORS_LOGGED

(***************************************************************************)
(* SpecAudit: one SafetyValidator.validate call taken rule by rule: the    *)
(* two loops over the rules, the batched audit write, the return.          *)
(***************************************************************************)
\* Abilities handed to the validator: clean, and one for each way a rule
\* can fail.
AuditedAbilities ==
    {CleanAbility, OutApproved, OutNoCleanup, OutBlocklisted, OutWarned,
     OutUnknownTechnique, OutNoExecutors}

\* The audit file as the call finds it: empty, or holding the lines of an
\* earlier validation.
EarlierLogs ==
    {<<>>, audit_lines(NoConn, COMMAND_BLOCKLIST_SHIPPED, CleanAbility)}

\* The locals of validate(ability) at its first line; log0 keeps the audit
\* file as the call found it.
ValidateStart(ability, log) ==
    [pc |-> "rules", ability |-> ability, all_results |-> <<>>,
     hard_failures |-> <<>>, warnings |-> <<>>, result |-> None,
     log0 |-> log]

\* Mutation: the hard rules stop at the first failure.
rules_left_FailFast(st, hard, soft) ==
    IF st.hard_failures # <<>> THEN 0
    ELSE Len(hard) + Len(soft) - Len(st.all_results)

\* validate: the passes its two loops have still to make
rules_left(st, hard, soft) == Len(hard) + Len(soft) - Len(st.all_results)

\* validate, one pass of `for rule_fn in self._hard_rules` or of
\* `for rule_fn in self._soft_rules`
evaluate_rule(st, hard, soft) ==
    LET n == Len(st.all_results) + 1
        result == (hard \o soft)[n]
    IN  [st EXCEPT
            !.all_results = Append(@, result),
            !.hard_failures = IF n <= Len(hard) /\ ~result.passed
                              THEN Append(@, result) ELSE @,
            !.warnings = IF n > Len(hard) /\ ~result.passed
                         THEN Append(@, result) ELSE @]

InitAudit ==
    /\ RunIdle
    /\ RetryIdle /\ StructIdle /\ LoopIdle /\ PipelineIdle
    /\ validator_conn \in Conns
    /\ command_blocklist \in BlocklistConfigs
    /\ enable_safety_layer = TRUE
    /\ llm_client = "gemini"
    /\ audit_log \in EarlierLogs
    /\ sv \in {ValidateStart(ability, audit_log) :
                  ability \in AuditedAbilities}

EvaluateRule ==
    /\ sv.pc = "rules"
    /\ LET hard == hard_rules(validator_conn, command_blocklist, sv.ability)
           soft == soft_rules(sv.ability)
       IN  /\ rules_left(sv, hard, soft) > 0
           /\ sv' = evaluate_rule(sv, hard, soft)
    /\ UNCHANGED <<audit_log, runVars, retryVars, structVars, loopVars,
                   configVars, pipelineVars>>

\* validate: self._log_audit_batch(ability.id, all_results)
LogAuditBatch ==
    /\ sv.pc = "rules"
    /\ LET hard == hard_rules(validator_conn, command_blocklist, sv.ability)
           soft == soft_rules(sv.ability)
       IN  rules_left(sv, hard, soft) = 0
    /\ \E io_ok \in BOOLEAN :
          audit_log' = log_audit_batch(audit_log,
                           audit_entries(sv.ability.id, sv.all_results),
                           io_ok)
    /\ sv' = [sv EXCEPT !.pc = "logged"]
    /\ UNCHANGED <<runVars, retryVars, structVars, loopVars, configVars,
                   pipelineVars>>

\* validate, lines 157-166: the ValidationResult is built and returned
ReturnResult ==
    /\ sv.pc = "logged"
    /\ sv' = [sv EXCEPT
                 !.pc = "done",
                 !.result = Some(ValidationResult(sv.ability.id,
                                                  sv.hard_failures,
                                                  sv.warnings))]
    /\ UNCHANGED <<audit_log, runVars, retryVars, structVars, loopVars,
                   configVars, pipelineVars>>

NextAudit == EvaluateRule \/ LogAuditBatch \/ ReturnResult

SpecAudit == InitAudit /\ [][NextAudit]_vars

\* The names of the 12 hard rules and the 2 soft rules, in the order of
\* self._hard_rules and self._soft_rules.
RuleOrder ==
    <<"schema_valid", "approval_status", "simulation_flag", "creator_tag",
      "mitre_mapping", "executor_present", "command_blocklist",
      "platform_coherence", "executor_name_enum", "cleanup_present",
      "content_check", "identity_check",
      "command_syntax", "known_binaries">>

MitreResult == sv.all_results[5]

_MAX_SNIPPET_LEN == 300

\* A description of n letters, then gap blanks, then m letters.
Text(n, gap, m) ==
    [i \in 1..(n + gap + m) |-> IF i > n /\ i <= n + gap THEN " " ELSE "x"]

\* The descriptions the store holds: none, a short one, blanks only, and
\* lengths around _MAX_SNIPPET_LEN without and with blanks at the cut.
Descriptions ==
    {Text(0, 0, 0), Text(1, 0, 0), Text(0, 2, 0),
     Text(_MAX_SNIPPET_LEN - 1, 0, 0), Text(_MAX_SNIPPET_LEN, 0, 0),
     Text(_MAX_SNIPPET_LEN + 1, 0, 0),
     Text(_MAX_SNIPPET_LEN - 2, 2, 1), Text(_MAX_SNIPPET_LEN - 2, 2, 0)}

\* The rows of CAMPAIGNS_FOR_TECHNIQUE: the fields the snippet is built of
CampaignRows ==
    [campaign_name : {"", "C0017", "C0024"}, description : Descriptions]

\* str.rstrip(): the string without its trailing blanks
rstrip(s) ==
    LET inked == {i \in DOMAIN s : s[i] # " "}
    IN  IF inked = {} THEN <<>>
        ELSE SubSeq(s, 1, CHOOSE i \in inked : \A j \in inked : j <= i)

\* _build_campaign_objects, `snippet`: None for no description, else
\* desc[:_MAX_SNIPPET_LEN].rstrip(), with "..." appended to a longer desc
description_snippet(desc) ==
    IF desc = <<>> THEN None
    ELSE LET cut == rstrip(SubSeq(desc, 1,
                                  Min(_MAX_SNIPPET_LEN, Len(desc))))
         IN  IF Len(desc) > _MAX_SNIPPET_LEN
             THEN Some(cut \o <<".", ".", ".">>)
             ELSE Some(cut)

\* CampaignUsage(campaign_name=name, ..., description_snippet=snippet)
CampaignUsage(rec) ==
    [campaign_name |-> rec.campaign_name,
     description_snippet |-> description_snippet(rec.description)]

\* _build_campaign_objects, one pass of `for rec in records`
build_campaign_object(st) ==
    LET rec == st.records[st.k]
        name == rec.campaign_name
    IN  IF name = "" \/ name \in st.seen_names
        THEN [st EXCEPT !.k = @ + 1]
        ELSE [st EXCEPT !.k = @ + 1,
                        !.seen_names = @ \cup {name},
                        !.campaigns = Append(@, CampaignUsage(rec))]

InitCampaigns ==
    /\ RetryIdle /\ StructIdle /\ LoopIdle /\ PipelineIdle /\ ValidateIdle
    /\ validator_conn = ConnUp
    /\ command_blocklist = COMMAND_BLOCKLIST_ENABLED
    /\ enable_safety_layer = TRUE
    /\ llm_client = "openai"
    /\ workers = <<>> /\ out_dir = <<>>
    /\ run \in [pc : {"loop"}, records : [1..2 -> CampaignRows], k : {1},
                campaigns : {<<>>}, seen_names : {{}}]

\* _build_campaign_objects: the body of the loop for the next row
BuildCampaignObject ==
    /\ run.pc = "loop"
    /\ run.k <= Len(run.records)
    /\ run' = build_campaign_object(run)
    /\ UNCHANGED <<workers, out_dir, retryVars, structVars, loopVars,
                   configVars, validateVars, pipelineVars>>

\* _build_campaign_objects: `return campaigns`
ReturnCampaigns ==
    /\ run.pc = "loop"
    /\ run.k > Len(run.records)
    /\ run' = [run EXCEPT !.pc = "returned"]
    /\ UNCHANGED <<workers, out_dir, retryVars, structVars, loopVars,
                   configVars, validateVars, pipelineVars>>

NextCampaigns == BuildCampaignObject \/ ReturnCampaigns

SpecCampaigns == InitCampaigns /\ [][NextCampaigns]_vars

\* The names of the rows passed so far that are not empty, each once, in
\* the order of their first row.
FirstNames ==
    LET passed == 1..(run.k - 1)
        first == {i \in passed :
                     /\ run.records[i].campaign_name # ""
                     /\ \A j \in 1..(i - 1) :
                           run.records[j].campaign_name
                               # run.records[i].campaign_name}
    IN  [n \in 1..Cardinality(first) |->
            run.records[CHOOSE i \in first :
                            Cardinality({j \in first : j <= i}) = n]
                .campaign_name]

\* C28 as the specification states it: the description snippet of every
\* CampaignRecord is at most 300 characters long whatever the length of the
\* source description, and rows with an empty or already-seen campaign name
\* produce no record.
C28_SnippetAtMost300 ==
    /\ \A c \in DOMAIN run.campaigns :
          run.campaigns[c].description_snippet # None =>
              Len(run.campaigns[c].description_snippet[1])
                  <= _MAX_SNIPPET_LEN
    /\ [c \in DOMAIN run.campaigns |-> run.campaigns[c].campaign_name]
          = FirstNames

====
